---- MODULE Spec2Model ----
(***************************************************************************)
(* Model of the Highcharts JSON generator of the Belchertown skin           *)
(* (bin/user/belchertown.py, class HighchartsJsonGenerator).                *)
(*                                                                          *)
(* The parts of run()/_getObservationData() are modelled, each as its own   *)
(* specification over the shared variables:                                 *)
(*   SpecSpan  the resolution of a chart's time_length into                 *)
(*             (minstamp, maxstamp) and its use in a fetch;                 *)
(*   SpecRain  the aggregation options of a series and the rain counter /   *)
(*             standard vector path;                                        *)
(*   SpecRose  the wind rose path (SpecCompass, SpecBreeze and SpecMixed   *)
(*             are the same steps over other inputs);                       *)
(*   SpecPass  the whole pass of run() over groups, charts and series up    *)
(*             to the written documents (SpecPoints: one chart over every   *)
(*             window; SpecInherit, SpecCategories, SpecOptions and         *)
(*             SpecNames: the same pass over other configurations);         *)
(*   SpecPublish  the pass beside a reader of the written files;            *)
(*   SpecMirror   the standard path over the texts of mirrored_value.       *)
(*                                                                          *)
(* Conventions.  Python's None is the value None for timestamps (Python 2   *)
(* orders None before every number) and Null for observation values.        *)
(* Configuration text is a sequence of one-character strings, so that       *)
(* int() and the keyword comparisons work on the characters.  Calendar      *)
(* spans are computed for a station whose local time is UTC.  Floating      *)
(* point values are exact decimals in fixed point, 1/10000 of the unit:      *)
(* rain, wind speed, wind direction in degrees and the wind rose's values.   *)
(***************************************************************************)
EXTENDS Integers, Sequences, FiniteSets, TLC

VARIABLES
    \* ---- the archive and the invocation (run(), lines 912-919, 963-967)
    start_ts,       \* self.start_ts = archive.firstGoodStamp(), None when empty
    stop_ts,        \* self.stop_ts  = archive.lastGoodStamp(),  None when empty
    gen_ts,         \* self.gen_ts, 0 when the engine passes none
    week_start,     \* config_dict["Station"]["week_start"]
    \* ---- one chart (plotname) of run()
    plot_options,   \* accumulateLeaves(chart_dict[chart_group][plotname])
    pc,             \* position in run() / _getObservationData()
    time_length,    \* the local time_length, [isint, text, n]
    minstamp,
    maxstamp,
    plotgen_ts,
    err,            \* the exception that ended the pass, "" when none
    fetch,          \* the span handed to the last query: [path, start, stop]
    \* ---- the skin's unit configuration
    string_formats, \* skin_dict['Units']['StringFormats']
    group_unit,     \* self.converter.group_unit_dict
    \* ---- one series (line_name) of run() and its _getObservationData() call
    observation,    \* observation_type
    line_options,   \* accumulateLeaves(chart_dict[chart_group][plotname][line_name])
    aggregate_type,     \* as passed to _getObservationData
    aggregate_interval, \* as passed to _getObservationData
    query,          \* the arguments of the last getSqlVectors / genSql call
    rows,           \* what that call returned, before conversion
    obs_vt,         \* the converted vector [values, unit]
    obsRound_vt,    \* the rounded (rain: accumulated) values, before mirroring
    series_data,    \* what _getObservationData returned
    rounding,       \* output[...]["series"][line_name]["rounding"]
    \* ---- the wind rose of _getObservationData()
    windDir_vt,     \* the direction vector as fetched
    windSpeed_vt,   \* the speed vector, converted
    windroseList,   \* the 7 lists of _create_windRose_data, before line 1310
    wind_sum,
    group_windSpeed, \* group_0_windSpeed .. group_6_windSpeed after the loop of line 1209
    \* ---- the whole pass of run() over graphs.conf
    chart_dict,     \* self.chart_dict: the chart groups, their charts, their series
    archive,        \* the values the archive answers a query with during the pass
    gi,             \* the place of chart_group in chart_dict.sections
    ci,             \* the place of plotname in chart_dict[chart_group].sections
    li,             \* the place of line_name in chart_dict[chart_group][plotname].sections
    output,         \* the dict output
    json_files,     \* the files written to HTML_ROOT/json, by chart group
    key_order,      \* the order of the keys of the OrderedDicts of output
    disk,           \* HTML_ROOT/json as a reader finds it: each file's text
    seen            \* what a reader of HTML_ROOT/json last read

spanVars == <<start_ts, stop_ts, gen_ts, week_start, plot_options, pc,
              time_length, minstamp, maxstamp, plotgen_ts, err, fetch>>

unitVars == <<string_formats, group_unit>>

seriesVars == <<observation, line_options, aggregate_type, aggregate_interval, query,
                rows, obs_vt, obsRound_vt, series_data, rounding,
                windDir_vt, windSpeed_vt, windroseList, wind_sum, group_windSpeed>>

passVars == <<chart_dict, archive, gi, ci, li, output, json_files, key_order, disk, seen>>

vars == <<spanVars, unitVars, seriesVars, passVars>>

-----------------------------------------------------------------------------
(* Python values *)

\* None as a timestamp. Python 2 orders None below every number, as this does
\* for the (positive) epoch seconds of the model.
None == 0 - 1

Truthy(x) == x # None /\ x # 0

\* None where the code holds a string
NoneStr == "<None>"

\* None as an observation value (below every value of the model)
Null == 0 - 999999999

\* dict.get(key, default)
Get(d, k, default) == IF k \in DOMAIN d THEN d[k] ELSE default

Abs(x) == IF x < 0 THEN 0 - x ELSE x

\* Python 2 round(): to the nearest multiple of unit, halves away from zero.
RoundHalfAway(x, unit) ==
    IF x >= 0 THEN ((2 * x + unit) \div (2 * unit)) * unit
              ELSE 0 - (((2 * (0 - x) + unit) \div (2 * unit)) * unit)

-----------------------------------------------------------------------------
(* Configuration text and int() *)

DigitChars == <<"0", "1", "2", "3", "4", "5", "6", "7", "8", "9">>

IsDigit(c) == \E i \in 1..10 : DigitChars[i] = c

DigitVal(c) == (CHOOSE i \in 1..10 : DigitChars[i] = c) - 1

RECURSIVE StripLeft(_)
StripLeft(s) == IF s # <<>> /\ Head(s) = " " THEN StripLeft(Tail(s)) ELSE s

RECURSIVE StripRight(_)
StripRight(s) ==
    IF s # <<>> /\ s[Len(s)] = " " THEN StripRight(SubSeq(s, 1, Len(s) - 1)) ELSE s

Strip(s) == StripRight(StripLeft(s))

Unsigned(s) == IF s # <<>> /\ Head(s) \in {"-", "+"} THEN Tail(s) ELSE s

\* int(text) succeeds: optional blanks, an optional sign, one or more digits.
IsIntLiteral(s) ==
    LET u == Unsigned(Strip(s))
    IN  u # <<>> /\ \A i \in 1..Len(u) : IsDigit(u[i])

RECURSIVE DigitsValue(_)
DigitsValue(u) ==
    IF u = <<>> THEN 0
    ELSE 10 * DigitsValue(SubSeq(u, 1, Len(u) - 1)) + DigitVal(u[Len(u)])

\* int(text) for a text with IsIntLiteral(text)
ParseInt(s) ==
    LET t == Strip(s)
        v == DigitsValue(Unsigned(t))
    IN  IF Head(t) = "-" THEN 0 - v ELSE v

KW_today          == <<"t","o","d","a","y">>
KW_week           == <<"w","e","e","k">>
KW_month          == <<"m","o","n","t","h">>
KW_year           == <<"y","e","a","r">>
KW_days_ago       == <<"d","a","y","s","_","a","g","o">>
KW_weeks_ago      == <<"w","e","e","k","s","_","a","g","o">>
KW_months_ago     == <<"m","o","n","t","h","s","_","a","g","o">>
KW_years_ago      == <<"y","e","a","r","s","_","a","g","o">>
KW_day_specific   == <<"d","a","y","_","s","p","e","c","i","f","i","c">>
KW_month_specific == <<"m","o","n","t","h","_","s","p","e","c","i","f","i","c">>
KW_year_specific  == <<"y","e","a","r","_","s","p","e","c","i","f","i","c">>
KW_all            == <<"a","l","l">>

ContainingKeywords == {KW_today, KW_week, KW_month, KW_year}
AgoKeywords == {KW_days_ago, KW_weeks_ago, KW_months_ago, KW_years_ago}
SpecificKeywords == {KW_day_specific, KW_month_specific, KW_year_specific}
Keywords == ContainingKeywords \cup AgoKeywords \cup SpecificKeywords \cup {KW_all}

-----------------------------------------------------------------------------
(* The calendar of datetime / time.mktime, local time = UTC *)

\* days since 1970-01-01 of the civil date y-m-d
DaysFromCivil(y, m, d) ==
    LET yy  == IF m <= 2 THEN y - 1 ELSE y
        era == yy \div 400
        yoe == yy - era * 400
        mp  == IF m > 2 THEN m - 3 ELSE m + 9
        doy == (153 * mp + 2) \div 5 + d - 1
        doe == yoe * 365 + yoe \div 4 - yoe \div 100 + doy
    IN  era * 146097 + doe - 719468

\* the civil date [y, m, d] of a day number
CivilFromDays(z) ==
    LET zz  == z + 719468
        era == zz \div 146097
        doe == zz - era * 146097
        yoe == (doe - doe \div 1460 + doe \div 36524 - doe \div 146096) \div 365
        doy == doe - (365 * yoe + yoe \div 4 - yoe \div 100)
        mp  == (5 * doy + 2) \div 153
        d   == doy - (153 * mp + 2) \div 5 + 1
        m   == IF mp < 10 THEN mp + 3 ELSE mp - 9
        y   == yoe + era * 400
    IN  [y |-> IF m <= 2 THEN y + 1 ELSE y, m |-> m, d |-> d]

IsLeap(y) == (y % 4 = 0 /\ y % 100 # 0) \/ y % 400 = 0

DaysInMonth(y, m) ==
    IF m = 2 THEN (IF IsLeap(y) THEN 29 ELSE 28)
    ELSE IF m \in {4, 6, 9, 11} THEN 30 ELSE 31

\* time.mktime of y-m-d hh:00:00
Mktime(y, m, d, hh) == DaysFromCivil(y, m, d) * 86400 + hh * 3600

\* datetime.date.fromtimestamp(ts), as a day number
DateOf(ts) == ts \div 86400

\* datetime.date.weekday(): Monday is 0
Weekday(day) == (day + 3) % 7

MidnightOf(day) == day * 86400

(* weeutil.weeutil.archive*Span(time_ts, grace=1, ..._ago=0), for time_ts not *)
(* None: the period holding time_ts - grace, moved back by the _ago count.    *)

archiveDaySpan(time_ts, days_ago) ==
    LET day == DateOf(time_ts - 1) - days_ago
    IN  <<MidnightOf(day), MidnightOf(day + 1)>>

archiveWeekSpan(time_ts, startOfWeek, weeks_ago) ==
    LET day    == DateOf(time_ts - 1)
        delta  == (Weekday(day) - startOfWeek + 7) % 7
        sunday == day - (delta + 7 * weeks_ago)
    IN  <<MidnightOf(sunday), MidnightOf(sunday + 7)>>

archiveMonthSpan(time_ts, months_ago) ==
    LET date == CivilFromDays(DateOf(time_ts - 1))
        idx  == 12 * date.y + (date.m - 1) - months_ago
    IN  <<Mktime(idx \div 12, (idx % 12) + 1, 1, 0),
          Mktime((idx + 1) \div 12, ((idx + 1) % 12) + 1, 1, 0)>>

archiveYearSpan(time_ts, years_ago) ==
    LET y == CivilFromDays(DateOf(time_ts - 1)).y - years_ago
    IN  <<Mktime(y, 1, 1, 0), Mktime(y + 1, 1, 1, 0)>>

\* datetime.datetime.strptime accepts the date: digits only, a real day
ValidDate(yt, mt, dt) ==
    /\ \A t \in {yt, mt, dt} : t # <<>> /\ \A i \in 1..Len(t) : IsDigit(t[i])
    /\ Len(yt) = 4 /\ Len(mt) <= 2 /\ Len(dt) <= 2
    /\ DigitsValue(mt) \in 1..12
    /\ DigitsValue(dt) \in 1..DaysInMonth(DigitsValue(yt), DigitsValue(mt))

-----------------------------------------------------------------------------
(* run(): the time span of one chart, lines 961-1015 *)

Text86400 == <<"8", "6", "4", "0", "0">>

\* plotgen_ts, lines 963-967; now is time.time()
PlotgenTs(gen, stop, now) ==
    IF Truthy(gen) THEN gen ELSE IF Truthy(stop) THEN stop ELSE now

Ok(span, tl) == [err |-> "", minstamp |-> span[1], maxstamp |-> span[2], time_length |-> tl]

Raise(e, tl) == [err |-> e, minstamp |-> None, maxstamp |-> None, time_length |-> tl]

StrValue(t) == [isint |-> FALSE, text |-> t, n |-> 0]

IntValue(t) == [isint |-> TRUE, text |-> t, n |-> ParseInt(t)]

\* AnchoredSpan with the _ago count handed to every span
AnchoredSpan_AgoEverywhere(tl, anchor, ws, time_ago) ==
    CASE tl \in {KW_today, KW_days_ago}   -> archiveDaySpan(anchor, time_ago)
      [] tl \in {KW_week, KW_weeks_ago}   -> archiveWeekSpan(anchor, ws, time_ago)
      [] tl \in {KW_month, KW_months_ago} -> archiveMonthSpan(anchor, time_ago)
      [] tl \in {KW_year, KW_years_ago}   -> archiveYearSpan(anchor, time_ago)

\* lines 975-992: the spans anchored at self.timespan.stop
AnchoredSpan(tl, anchor, ws, time_ago) ==
    CASE tl = KW_today      -> archiveDaySpan(anchor, 0)
      [] tl = KW_week       -> archiveWeekSpan(anchor, ws, 0)
      [] tl = KW_month      -> archiveMonthSpan(anchor, 0)
      [] tl = KW_year       -> archiveYearSpan(anchor, 0)
      [] tl = KW_days_ago   -> archiveDaySpan(anchor, time_ago)
      [] tl = KW_weeks_ago  -> archiveWeekSpan(anchor, ws, time_ago)
      [] tl = KW_months_ago -> archiveMonthSpan(anchor, time_ago)
      [] tl = KW_years_ago  -> archiveYearSpan(anchor, time_ago)

\* lines 993-1007: the date handed to strptime, as [y, m, d, hh] texts
SpecificDate(tl, ys, ms, ds) ==
    CASE tl = KW_day_specific   -> [y |-> ys, m |-> ms, d |-> ds, hh |-> 13]
      [] tl = KW_month_specific -> [y |-> ys, m |-> ms, d |-> <<"5">>, hh |-> 0]
      [] tl = KW_year_specific  -> [y |-> ys, m |-> <<"8">>, d |-> <<"1">>, hh |-> 0]

SpecificSpan(tl, date) ==
    LET stamp == Mktime(DigitsValue(date.y), DigitsValue(date.m), DigitsValue(date.d), date.hh)
    IN  CASE tl = KW_day_specific   -> archiveDaySpan(stamp, 0)
          [] tl = KW_month_specific -> archiveMonthSpan(stamp, 0)
          [] tl = KW_year_specific  -> archiveYearSpan(stamp, 0)

\* RollingSpan with the end taken from the end of the generation minute
RollingSpan_EndOfMinute(pg, n) == <<pg - n, (pg \div 60) * 60 + 60>>

\* lines 1011-1015: the rolling window
RollingSpan(pg, n) == <<pg - n, pg>>

\* ResolveSpan with the default window for a time_length it cannot read
ResolveSpan_DefaultWindow(opts, first, stop, pg, ws) ==
    LET tl      == Get(opts, "time_length", Text86400)
        agoText == Get(opts, "time_ago", <<"1">>)
        date    == SpecificDate(tl, Get(opts, "year_specific", <<"2", "0", "1", "9">>),
                                    Get(opts, "month_specific", <<"8">>),
                                    Get(opts, "day_specific", <<"1">>))
    IN  IF ~IsIntLiteral(agoText) THEN Raise("ValueError", StrValue(tl))
        ELSE IF tl \in ContainingKeywords \cup AgoKeywords
        THEN IF stop = None THEN Raise("TypeError", StrValue(tl))
             ELSE Ok(AnchoredSpan(tl, stop, ws, ParseInt(agoText)), StrValue(tl))
        ELSE IF tl \in SpecificKeywords
        THEN IF ~ValidDate(date.y, date.m, date.d) THEN Raise("ValueError", StrValue(tl))
             ELSE Ok(SpecificSpan(tl, date), StrValue(tl))
        ELSE IF tl = KW_all THEN Ok(<<first, stop>>, StrValue(tl))
        ELSE IF ~IsIntLiteral(tl) THEN Ok(RollingSpan(pg, 86400), IntValue(Text86400))
        ELSE Ok(RollingSpan(pg, ParseInt(tl)), IntValue(tl))

\* lines 969-1015 as a function of the chart's options and the invocation
ResolveSpan(opts, first, stop, pg, ws) ==
    LET tl      == Get(opts, "time_length", Text86400)
        agoText == Get(opts, "time_ago", <<"1">>)
        date    == SpecificDate(tl, Get(opts, "year_specific", <<"2", "0", "1", "9">>),
                                    Get(opts, "month_specific", <<"8">>),
                                    Get(opts, "day_specific", <<"1">>))
    IN  IF ~IsIntLiteral(agoText) THEN Raise("ValueError", StrValue(tl))
        ELSE IF tl \in ContainingKeywords \cup AgoKeywords
        THEN IF stop = None THEN Raise("TypeError", StrValue(tl))
             ELSE Ok(AnchoredSpan(tl, stop, ws, ParseInt(agoText)), StrValue(tl))
        ELSE IF tl \in SpecificKeywords
        THEN IF ~ValidDate(date.y, date.m, date.d) THEN Raise("ValueError", StrValue(tl))
             ELSE Ok(SpecificSpan(tl, date), StrValue(tl))
        ELSE IF tl = KW_all THEN Ok(<<first, stop>>, StrValue(tl))
        ELSE IF ~IsIntLiteral(tl) THEN Raise("ValueError", StrValue(tl))
        ELSE Ok(RollingSpan(pg, ParseInt(tl)), IntValue(tl))

\* line 1464: the series of this chart take the group-by path
IsGroupBy(opts) ==
    \/ Get(opts, "xaxis_groupby", <<>>) # <<>>
    \/ Get(opts, "xaxis_categories", <<>>) # <<>>

\* weeutil.TimeSpan(start_ts, end_ts) raises ValueError when start_ts > end_ts
TimeSpanOk(first, last) == ~(first > last)

-----------------------------------------------------------------------------
(* The inputs of SpecSpan *)

\* lastGoodStamp() of the archives tried: around a new year, a leap day, the
\* start of a month and of a week, and the middle of a day.
Anchors ==
    { Mktime(2020, 1, 1, 0) - 1, Mktime(2020, 1, 1, 0), Mktime(2020, 1, 1, 0) + 1,
      Mktime(2020, 2, 29, 12), Mktime(2020, 3, 1, 0), Mktime(2020, 3, 2, 0),
      Mktime(2019, 8, 14, 13) + 300 }

\* seconds between the first and the last record; 0 is an archive of one record
ArchiveLengths == {0, 400 * 86400}

\* seconds from the last record to the generation time, when one is passed
GenDelays == {0, 60}

\* time.time(), whole seconds
WallClock == {Mktime(2020, 3, 2, 0) + 125}

TimeLengthTexts ==
    Keywords \cup
    { Text86400, <<"3", "6", "0", "0">>, <<"0">>, <<"-", "6", "0">>, <<" ", "9", "0", "0">>,
      <<"T", "o", "d", "a", "y">>, <<"f", "o", "r", "t", "n", "i", "g", "h", "t">>,
      <<"1", "h">>, <<"3", "6", "0", "0", ".", "0">>, <<"-">> }

TimeAgoTexts == { <<"0">>, <<"1">>, <<"2">>, <<"1", "3">>, <<"x">> }

SpecificOptions ==
    { <<>>,
      [day_specific |-> <<"3", "1">>],
      [month_specific |-> <<"2">>],
      [month_specific |-> <<"2">>, day_specific |-> <<"3", "0">>],
      [year_specific |-> <<"2", "0", "2", "0">>, month_specific |-> <<"2">>,
       day_specific |-> <<"2", "9">>],
      [year_specific |-> <<"2", "0", "2", "0">>, month_specific |-> <<"1", "2">>,
       day_specific |-> <<"3", "1">>],
      [month_specific |-> <<"1", "3">>],
      [year_specific |-> <<"2", "0", "x">>] }

GroupByOptions == { <<>>, [xaxis_groupby |-> <<"m", "o", "n", "t", "h">>] }

\* the options of the charts tried: a chart without time_length, and every
\* time_length text with the options that time_length reads
ChartOptions ==
    { g : g \in GroupByOptions } \cup
    { [time_length |-> t] @@ g : t \in TimeLengthTexts, g \in GroupByOptions } \cup
    { [time_length |-> t, time_ago |-> a] @@ g :
          t \in AgoKeywords \cup {KW_today}, a \in TimeAgoTexts, g \in GroupByOptions } \cup
    { [time_length |-> t] @@ o @@ g :
          t \in SpecificKeywords, o \in SpecificOptions, g \in GroupByOptions }

NoFetch == [path |-> "", start |-> None, stop |-> None]

NoQuery == [path |-> "", obs_lookup |-> "", aggregate_type |-> NoneStr,
            aggregate_interval |-> None]

NoVector == [values |-> <<>>, unit |-> NoneStr, group |-> NoneStr]

\* no unit configuration: the specification does not read it
UnitsIdle ==
    /\ string_formats = <<>>
    /\ group_unit = <<>>

\* no series in hand
SeriesIdle ==
    /\ observation = ""
    /\ line_options = <<>>
    /\ aggregate_type = NoneStr
    /\ aggregate_interval = None
    /\ query = NoQuery
    /\ rows = <<>>
    /\ obs_vt = NoVector
    /\ obsRound_vt = <<>>
    /\ series_data = <<>>
    /\ rounding = ""
    /\ windDir_vt = NoVector
    /\ windSpeed_vt = NoVector
    /\ windroseList = <<>>
    /\ wind_sum = 0
    /\ group_windSpeed = <<>>

\* no pass over graphs.conf: the specification follows one chart or one series
PassIdle ==
    /\ chart_dict = <<>>
    /\ archive = <<>>
    /\ gi = 0
    /\ ci = 0
    /\ li = 0
    /\ output = <<>>
    /\ json_files = <<>>
    /\ key_order = <<>>
    /\ disk = <<>>
    /\ seen = <<>>

InitSpan ==
    /\ PassIdle
    /\ \E a \in Anchors \cup {None} :
         /\ stop_ts = a
         /\ start_ts \in IF a = None THEN {None} ELSE {a - l : l \in ArchiveLengths}
         /\ gen_ts \in {0} \cup (IF a = None THEN WallClock ELSE {a + d : d \in GenDelays})
    /\ week_start \in 0..6
    /\ plot_options = <<>>
    /\ pc = "run"
    /\ time_length = StrValue(<<>>)
    /\ minstamp = None
    /\ maxstamp = None
    /\ plotgen_ts = None
    /\ err = ""
    /\ fetch = NoFetch
    /\ UnitsIdle
    /\ SeriesIdle

\* run(), lines 961-1015: one chart's options, among options, are read and its
\* span resolved
ChartStep(options) ==
    /\ pc = "run"
    /\ \E opts \in options, now \in WallClock :
         LET pg == PlotgenTs(gen_ts, stop_ts, now)
             r  == ResolveSpan(opts, start_ts, stop_ts, pg, week_start)
         IN  /\ plot_options' = opts
             /\ plotgen_ts' = pg
             /\ time_length' = r.time_length
             /\ minstamp' = r.minstamp
             /\ maxstamp' = r.maxstamp
             /\ err' = r.err
             /\ pc' = IF r.err = "" THEN "resolved" ELSE "failed"
    /\ UNCHANGED <<start_ts, stop_ts, gen_ts, week_start, fetch, unitVars, seriesVars>>

Chart == ChartStep(ChartOptions) /\ UNCHANGED passVars

\* _getObservationData(observation, minstamp, maxstamp, ...) for one series of
\* the chart: lines 1179/1530 build TimeSpan(start_ts, end_ts) for the query,
\* lines 1496-1509 put start_ts and end_ts into the SQL text as they are.
Series ==
    /\ pc \in {"resolved", "fetched"}
    /\ IF IsGroupBy(plot_options)
       THEN /\ fetch' = [path |-> "groupby", start |-> minstamp, stop |-> maxstamp]
            /\ pc' = "fetched"
            /\ err' = err
       ELSE IF TimeSpanOk(minstamp, maxstamp)
       THEN /\ fetch' = [path |-> "vector", start |-> minstamp, stop |-> maxstamp]
            /\ pc' = "fetched"
            /\ err' = err
       ELSE /\ fetch' = fetch
            /\ pc' = "failed"
            /\ err' = "ValueError"
    /\ UNCHANGED <<start_ts, stop_ts, gen_ts, week_start, plot_options, time_length,
                   minstamp, maxstamp, plotgen_ts, unitVars, seriesVars, passVars>>

\* the loop of line 953 goes on to the next chart
NextChart ==
    /\ pc \in {"resolved", "fetched"}
    /\ pc' = "run"
    /\ plot_options' = <<>>
    /\ time_length' = StrValue(<<>>)
    /\ minstamp' = None
    /\ maxstamp' = None
    /\ plotgen_ts' = None
    /\ fetch' = NoFetch
    /\ UNCHANGED <<start_ts, stop_ts, gen_ts, week_start, err, unitVars, seriesVars,
                   passVars>>

NextSpan == Chart \/ Series \/ NextChart

SpecSpan == InitSpan /\ [][NextSpan]_vars

-----------------------------------------------------------------------------
(* Units: weewx.units and the skin's [Units] section *)

\* weewx.units.obs_group_dict, for the observations of the model; rainTotal and
\* windRose are names of this skin and have no entry (KeyError)
ObsGroup(obs) ==
    CASE obs = "rain"      -> "group_rain"
      [] obs = "rainRate"  -> "group_rainrate"
      [] obs = "windSpeed" -> "group_speed"
      [] obs = "windDir"   -> "group_direction"
      [] OTHER             -> NoneStr

\* the unit the archive holds a group in (a US archive)
ArchiveUnit(group) ==
    CASE group = "group_rain"      -> "inch"
      [] group = "group_rainrate"  -> "inch_per_hour"
      [] group = "group_speed"     -> "mile_per_hour"
      [] group = "group_direction" -> "degree_compass"
      [] OTHER                     -> NoneStr

\* the factor [num, den] of weewx.units.conversionDict from the archive's unit
Factor(unit) ==
    CASE unit \in {"cm", "cm_per_hour"}  -> [num |-> 254, den |-> 100]
      [] unit \in {"mm", "mm_per_hour"}  -> [num |-> 254, den |-> 10]
      [] unit = "km_per_hour"            -> [num |-> 25146, den |-> 15625]
      [] unit = "meter_per_second"       -> [num |-> 1397, den |-> 3125]
      [] unit = "knot"                   -> [num |-> 50292, den |-> 57875]
      [] OTHER                           -> [num |-> 1, den |-> 1]

\* self.converter.convert of one value: v * num / den in 1/10000, cut after
\* the last place.  The archive's values are whole hundredths (v = 100 * h),
\* and the quotient is taken from h * num in two steps to stay in 32 bits.
ConvertValue(v, unit) ==
    IF v = Null THEN Null
    ELSE LET f == Factor(unit)
             p == (v \div 100) * f.num
         IN  (p \div f.den) * 100 + ((p % f.den) * 100) \div f.den

\* self.converter.convert(vt): a vector without unit is returned as it is
Convert(vt, gu) ==
    IF vt.unit = NoneStr THEN vt
    ELSE LET unit == gu[vt.group]
         IN  [values |-> [i \in 1..Len(vt.values) |-> ConvertValue(vt.values[i], unit)],
              unit |-> unit, group |-> vt.group]

\* getSqlVectors(...): the vector of an observation; unit and group are None
\* when the span holds no record
SqlVector(obs_lookup, values) ==
    IF values = <<>> THEN [values |-> <<>>, unit |-> NoneStr, group |-> NoneStr]
    ELSE [values |-> values, unit |-> ArchiveUnit(ObsGroup(obs_lookup)),
          group |-> ObsGroup(obs_lookup)]

RECURSIVE Pow10(_)
Pow10(k) == IF k = 0 THEN 1 ELSE 10 * Pow10(k - 1)

\* round(x, places) of a value held in 1/10000
RoundPlaces(x, places) == RoundHalfAway(x, Pow10(4 - places))

\* _roundNone with None rounded as 0.0
roundNone_Zero(value, places) == IF value = Null THEN 0 ELSE RoundPlaces(value, places)

\* _roundNone, lines 1572-1579
roundNone(value, places) == IF value = Null THEN Null ELSE RoundPlaces(value, places)

\* StringFormats.get(key, default)[-2] as a number; formats are "%.Nf"
UsageRound(formats, key, default) ==
    LET f == Get(formats, key, default) IN DigitVal(f[Len(f) - 1])

-----------------------------------------------------------------------------
(* run(): the options of one series, lines 1085-1130 *)

\* line 1087
NoAggregation == {NoneStr, "", "None", "none"}

\* lines 1085-1097: [skip, err, aggregate_type, aggregate_interval]
SeriesAggregation(lo) ==
    LET at == Get(lo, "aggregate_type", NoneStr)
    IN  IF at \in NoAggregation
        THEN [skip |-> FALSE, err |-> "", aggregate_type |-> NoneStr, aggregate_interval |-> None]
        ELSE IF "aggregate_interval" \notin DOMAIN lo
        THEN [skip |-> TRUE, err |-> "", aggregate_type |-> at, aggregate_interval |-> None]
        ELSE IF ~IsIntLiteral(lo["aggregate_interval"])
        THEN [skip |-> FALSE, err |-> "ValueError", aggregate_type |-> at,
              aggregate_interval |-> None]
        ELSE [skip |-> FALSE, err |-> "", aggregate_type |-> at,
              aggregate_interval |-> ParseInt(lo["aggregate_interval"])]

\* lines 1118-1130: the series' rounding field
SeriesRounding(obs, gu, formats) ==
    LET lookup == IF obs = "rainTotal" THEN "rain" ELSE obs
        group  == ObsGroup(lookup)
        f      == Get(formats, Get(gu, group, NoneStr), <<"0">>)
    IN  IF group = NoneStr \/ group \notin DOMAIN gu \/ Len(f) < 3 THEN "-1" ELSE f[3]

-----------------------------------------------------------------------------
(* _getObservationData(): the rain, standard and group-by paths, 1450-1570 *)

\* ForcedAggregation without the test of the interval
ForcedAggregation_Always(obs, at, ai) ==
    CASE obs = "rainTotal" -> [obs_lookup |-> "rain", aggregate_type |-> "sum"]
      [] obs = "rainRate"  -> [obs_lookup |-> "rainRate", aggregate_type |-> "max"]
      [] OTHER             -> [obs_lookup |-> obs, aggregate_type |-> at]

\* lines 1450-1462
ForcedAggregation(obs, at, ai) ==
    CASE obs = "rainTotal" ->
            [obs_lookup |-> "rain", aggregate_type |-> IF Truthy(ai) THEN "sum" ELSE at]
      [] obs = "rainRate" ->
            [obs_lookup |-> "rainRate", aggregate_type |-> IF Truthy(ai) THEN "max" ELSE at]
      [] OTHER -> [obs_lookup |-> obs, aggregate_type |-> at]

\* the rain counter with the count started again after a missing value
RECURSIVE RainCounter_ResetOnNone(_, _)
RainCounter_ResetOnNone(values, rain_count) ==
    IF values = <<>> THEN <<>>
    ELSE LET count == IF Head(values) = Null THEN 0 ELSE rain_count + Head(values)
         IN  <<RoundPlaces(count, 2)>> \o RainCounter_ResetOnNone(Tail(values), count)

\* the rain counter adding each value to the rounded count
RECURSIVE RainCounter_RoundedCount(_, _)
RainCounter_RoundedCount(values, rain_count) ==
    IF values = <<>> THEN <<>>
    ELSE LET rain  == IF Head(values) = Null THEN 0 ELSE Head(values)
             count == RoundPlaces(rain_count + rain, 2)
         IN  <<count>> \o RainCounter_RoundedCount(Tail(values), count)

\* lines 1536-1543: the loop over obs_vt[0], from rain_count on
RECURSIVE RainCounter(_, _)
RainCounter(values, rain_count) ==
    IF values = <<>> THEN <<>>
    ELSE LET rain  == IF Head(values) = Null THEN 0 ELSE Head(values)
             count == rain_count + rain
         IN  <<RoundPlaces(count, 2)>> \o RainCounter(Tail(values), count)

\* lines 1546-1551 (an observation other than barometer)
StandardRound(vt, formats) ==
    LET usageRound == UsageRound(formats, vt.group, <<"2", "f">>)
    IN  [i \in 1..Len(vt.values) |-> roundNone(vt.values[i], usageRound)]

\* Mirror leaving every series as it is
Mirror_Never(values, mirrored_value) == values

\* Mirror negating every series
Mirror_Always(values, mirrored_value) ==
    [i \in 1..Len(values) |-> IF values[i] # Null THEN 0 - values[i] ELSE values[i]]

\* lines 1516-1520 and 1561-1565; mirrored_value is a text or None
Mirror(values, mirrored_value) ==
    IF mirrored_value \notin {NoneStr, ""}
    THEN [i \in 1..Len(values) |-> IF values[i] # Null THEN 0 - values[i] ELSE values[i]]
    ELSE values

\* the query's time vectors: record i ends at i * step seconds after the span's
\* start and begins one step before
StopTime(i, step) == i * step
StartTime(i, step) == (i - 1) * step

\* PointTime with the end of the record for every chart
PointTime_StopOnly(i, tl, ai) ==
    LET step == IF Truthy(ai) THEN ai ELSE 300
    IN  StopTime(i, step) * 1000

\* lines 1553-1559 and 1567: the point's time in milliseconds
PointTime(i, tl, ai) ==
    LET step == IF Truthy(ai) THEN ai ELSE 300
    IN  (IF tl.text = KW_today \/ tl.isint THEN StopTime(i, step) ELSE StartTime(i, step)) * 1000

\* lines 1450-1570 for an observation other than windRose: what is asked of
\* the archive and what is made of the answer
GetObservationData(obs, at, ai, tl, opts, mirrored_value, answer, gu, formats) ==
    LET forced == ForcedAggregation(obs, at, ai)
        lookup == forced.obs_lookup
    IN  IF IsGroupBy(opts)
        THEN LET group  == ObsGroup(lookup)
                 values == [i \in 1..Len(answer) |->
                              IF group = NoneStr THEN answer[i]
                              ELSE ConvertValue(answer[i], gu[group])]
             IN  [query |-> [path |-> "groupby", obs_lookup |-> lookup,
                             aggregate_type |-> IF forced.aggregate_type = NoneStr THEN "sum"
                                                ELSE forced.aggregate_type,
                             aggregate_interval |-> None],
                  obs_vt |-> [values |-> values, unit |-> NoneStr, group |-> group],
                  obsRound_vt |-> values,
                  series_data |-> Mirror(values, mirrored_value)]
        ELSE LET vt      == Convert(SqlVector(lookup, answer), gu)
                 rounded == IF obs = "rainTotal" THEN RainCounter(vt.values, 0)
                            ELSE StandardRound(vt, formats)
                 final   == Mirror(rounded, mirrored_value)
             IN  [query |-> [path |-> "vector", obs_lookup |-> lookup,
                             aggregate_type |-> forced.aggregate_type,
                             aggregate_interval |-> ai],
                  obs_vt |-> vt,
                  obsRound_vt |-> rounded,
                  series_data |-> [i \in 1..Len(final) |-> <<PointTime(i, tl, ai), final[i]>>]]

-----------------------------------------------------------------------------
(* The inputs of SpecRain *)

\* the most records a query answers with
MaxRows == 3

\* rain and rain rate as the archive holds them, in 1/10000 inch (per hour)
RainValues == {Null, 0, 1000, 2000, 0 - 1000}

RECURSIVE SeqsUpTo(_, _)
SeqsUpTo(S, n) ==
    IF n = 0 THEN {<<>>}
    ELSE LET shorter == SeqsUpTo(S, n - 1)
         IN  shorter \cup {Append(q, x) : q \in {t \in shorter : Len(t) = n - 1}, x \in S}

\* the display unit of rain with its string format, as [Units] configures them
UnitConfigs ==
    { [gu |-> [group_rain |-> "inch", group_rainrate |-> "inch_per_hour"],
       formats |-> [inch |-> <<"%", ".", "2", "f">>, inch_per_hour |-> <<"%", ".", "2", "f">>]],
      [gu |-> [group_rain |-> "cm", group_rainrate |-> "cm_per_hour"],
       formats |-> [cm |-> <<"%", ".", "2", "f">>, cm_per_hour |-> <<"%", ".", "2", "f">>]],
      [gu |-> [group_rain |-> "mm", group_rainrate |-> "mm_per_hour"],
       formats |-> [mm |-> <<"%", ".", "1", "f">>, mm_per_hour |-> <<"%", ".", "1", "f">>]] }

SeriesObservations == {"rainTotal", "rainRate"}

AggregationOptions ==
    { <<>>,
      [aggregate_interval |-> <<"3", "6", "0", "0">>],
      [aggregate_type |-> "none", aggregate_interval |-> <<"3", "6", "0", "0">>],
      [aggregate_type |-> "sum", aggregate_interval |-> <<"3", "6", "0", "0">>],
      [aggregate_type |-> "avg", aggregate_interval |-> <<"3", "6", "0", "0">>],
      [aggregate_type |-> "max"],
      [aggregate_type |-> "avg", aggregate_interval |-> <<"1", "h">>] }

MirrorOptions == { <<>>, [mirrored_value |-> "true"] }

LineOptions == { a @@ m : a \in AggregationOptions, m \in MirrorOptions }

\* the time_length of the chart after its resolution
ResolvedTimeLengths == { StrValue(KW_today), StrValue(KW_week), IntValue(Text86400) }

SpanIdle ==
    /\ start_ts = None /\ stop_ts = None /\ gen_ts = 0 /\ week_start = 6
    /\ minstamp = None /\ maxstamp = None /\ plotgen_ts = None
    /\ err = "" /\ fetch = NoFetch

InitRain ==
    /\ PassIdle
    /\ SpanIdle
    /\ plot_options \in GroupByOptions
    /\ time_length \in ResolvedTimeLengths
    /\ \E u \in UnitConfigs : string_formats = u.formats /\ group_unit = u.gu
    /\ pc = "series"
    /\ SeriesIdle

\* run(), lines 1050-1148, for one series: its aggregation options, its
\* rounding field and its data; the series is one of observations with its
\* options among options, the archive answers with one of answers
LineStep(observations, options, answers) ==
    /\ pc = "series"
    /\ \E obs \in observations, lo \in options :
         LET agg == SeriesAggregation(lo)
         IN  /\ observation' = obs
             /\ line_options' = lo
             /\ aggregate_type' = agg.aggregate_type
             /\ aggregate_interval' = agg.aggregate_interval
             /\ IF agg.skip \/ agg.err # ""
                THEN /\ pc' = IF agg.skip THEN "skipped" ELSE "failed"
                     /\ err' = agg.err
                     /\ UNCHANGED <<query, rows, obs_vt, obsRound_vt, series_data, rounding>>
                ELSE \E answer \in answers :
                       LET r == GetObservationData(obs, agg.aggregate_type,
                                    agg.aggregate_interval, time_length, plot_options,
                                    Get(lo, "mirrored_value", NoneStr), answer,
                                    group_unit, string_formats)
                       IN  /\ pc' = "done"
                           /\ err' = err
                           /\ rounding' = SeriesRounding(obs, group_unit, string_formats)
                           /\ query' = r.query
                           /\ rows' = answer
                           /\ obs_vt' = r.obs_vt
                           /\ obsRound_vt' = r.obsRound_vt
                           /\ series_data' = r.series_data
    /\ UNCHANGED <<start_ts, stop_ts, gen_ts, week_start, plot_options, time_length,
                   minstamp, maxstamp, plotgen_ts, fetch, unitVars,
                   windDir_vt, windSpeed_vt, windroseList, wind_sum, group_windSpeed>>

\* the answers of the archive: a group-by query has no None (IFNULL(..., 0))
RainAnswers ==
    SeqsUpTo(IF IsGroupBy(plot_options) THEN RainValues \ {Null} ELSE RainValues, MaxRows)

Line == LineStep(SeriesObservations, LineOptions, RainAnswers) /\ UNCHANGED passVars

\* the loop of line 1050 goes on to the next series
NextLine ==
    /\ pc \in {"skipped", "done"}
    /\ pc' = "series"
    /\ observation' = ""
    /\ line_options' = <<>>
    /\ aggregate_type' = NoneStr
    /\ aggregate_interval' = None
    /\ query' = NoQuery
    /\ rows' = <<>>
    /\ obs_vt' = NoVector
    /\ obsRound_vt' = <<>>
    /\ series_data' = <<>>
    /\ rounding' = ""
    /\ windDir_vt' = NoVector
    /\ windSpeed_vt' = NoVector
    /\ windroseList' = <<>>
    /\ wind_sum' = 0
    /\ group_windSpeed' = <<>>
    /\ UNCHANGED <<start_ts, stop_ts, gen_ts, week_start, plot_options, time_length,
                   minstamp, maxstamp, plotgen_ts, err, fetch, unitVars, passVars>>

NextRain == Line \/ NextLine

SpecRain == InitRain /\ [][NextRain]_vars

-----------------------------------------------------------------------------
(* _getObservationData(): the wind rose, lines 1165-1448 *)

SpeedUnits == {"mile_per_hour", "km_per_hour", "meter_per_second", "knot"}

\* lines 1210-1297: the 7 groups of a speed unit: group 0 below calm, groups
\* 1..5 from mid[k][1] to mid[k][2], group 6 from top on
SpeedGroups(unit) ==
    CASE unit = "mile_per_hour" ->
            [calm |-> 10000,
             mid  |-> << <<10000, 30000>>, <<40000, 70000>>, <<80000, 120000>>,
                         <<130000, 180000>>, <<190000, 240000>> >>,
             top  |-> 250000]
      [] unit = "km_per_hour" ->
            [calm |-> 20000,
             mid  |-> << <<20000, 50000>>, <<60000, 110000>>, <<120000, 190000>>,
                         <<200000, 280000>>, <<290000, 380000>> >>,
             top  |-> 390000]
      [] unit = "meter_per_second" ->
            [calm |-> 5000,
             mid  |-> << <<5000, 15000>>, <<16000, 33000>>, <<34000, 55000>>,
                         <<56000, 79000>>, <<80000, 107000>> >>,
             top  |-> 108000]
      [] unit = "knot" ->
            [calm |-> 10000,
             mid  |-> << <<10000, 30000>>, <<40000, 60000>>, <<70000, 100000>>,
                         <<110000, 160000>>, <<170000, 210000>> >>,
             top  |-> 220000]

\* a sample that no branch of lines 1210-1297 appends to a group
NoGroup == 0 - 1

\* lines 1209-1297: the group a merged sample is appended to.  A speed of None
\* is below every number and goes to group 0.
SpeedGroup(speed, unit) ==
    IF unit \notin SpeedUnits THEN NoGroup
    ELSE LET g == SpeedGroups(unit)
         IN  IF speed < g.calm THEN 0
             ELSE IF \E k \in 1..5 : speed >= g.mid[k][1] /\ speed <= g.mid[k][2]
             THEN CHOOSE k \in 1..5 : speed >= g.mid[k][1] /\ speed <= g.mid[k][2]
             ELSE IF speed >= g.top THEN 6
             ELSE NoGroup

\* lines 1341-1372
SpeedRanges(unit) ==
    CASE unit = "mile_per_hour" ->
            <<"< 1", "1-3", "4-7", "8-12", "13-18", "19-24", "25+">>
      [] unit = "km_per_hour" ->
            <<"< 2", "2-5", "6-11", "12-19", "20-28", "29-38", "39+">>
      [] unit = "meter_per_second" ->
            <<"< 0.5", "0.5-1.5", "1.6-3.3", "3.4-5.5", "5.5-7.9", "8-10.7", "10.8+">>
      [] unit = "knot" ->
            <<"< 1", "1-3", "4-6", "7-10", "11-16", "17-21", "22+">>

\* line 1202: skin_dict["Units"]["Labels"]
Labels(unit) ==
    CASE unit = "mile_per_hour"    -> "mph"
      [] unit = "km_per_hour"      -> "km/h"
      [] unit = "meter_per_second" -> "m/s"
      [] unit = "knot"             -> "knots"

\* line 1205: zip() stops at the end of the shorter list
Zip(a, b) ==
    [i \in 1..(IF Len(a) < Len(b) THEN Len(a) ELSE Len(b)) |-> <<a[i], b[i]>>]

RECURSIVE Sum(_)
Sum(q) == IF q = <<>> THEN 0 ELSE Head(q) + Sum(Tail(q))

\* the bucket with the quotient rounded to the nearest whole number
Bucket_Rounded(dir) == (RoundHalfAway(dir + 112500, 225000) \div 225000) % 16

\* the bucket without the remainder of 16
Bucket_NoWrap(dir) == (dir + 112500) \div 225000

\* line 1592: int((windDirList[x] + 11.25) / 22.5) % 16
Bucket(dir) == ((dir + 112500) \div 225000) % 16

\* lines 1587-1593, for one element of windroseList
RECURSIVE BucketSum(_, _, _)
BucketSum(windDirList, windSpeedList, b) ==
    IF windDirList = <<>> THEN 0
    ELSE (IF /\ Head(windSpeedList) # Null
             /\ Head(windDirList) # Null
             /\ Bucket(Head(windDirList)) = b
          THEN Head(windSpeedList) ELSE 0)
         + BucketSum(Tail(windDirList), Tail(windSpeedList), b)

\* lines 1581-1602
create_windRose_data(windDirList, windSpeedList) ==
    [b \in 1..16 |-> RoundPlaces(BucketSum(windDirList, windSpeedList, b - 1), 1)]

\* line 1309
WindSum(lists) == Sum([g \in 1..Len(lists) |-> Sum(lists[g])])

\* round(v / wind_sum * 100), a whole number of percent
Percent(v, total) == (RoundHalfAway(100 * v, total) \div total) * 10000

\* the normalisation with each group taken by its own sum
Normalise_PerGroup(lists, total) ==
    [g \in 1..Len(lists) |->
        IF Sum(lists[g]) > 0
        THEN [b \in 1..Len(lists[g]) |-> Percent(lists[g][b], Sum(lists[g]))]
        ELSE lists[g]]

\* the normalisation without the test of line 1310: the division by a total
\* of zero fails and leaves no value
Normalise_Unguarded(lists, total) ==
    [g \in 1..Len(lists) |->
        [b \in 1..Len(lists[g]) |->
            IF total = 0 THEN Null ELSE Percent(lists[g][b], total)]]

\* lines 1310-1338
Normalise(lists, total) ==
    IF total > 0
    THEN [g \in 1..Len(lists) |-> [b \in 1..Len(lists[g]) |-> Percent(lists[g][b], total)]]
    ELSE lists

\* the test of the vectors with both units required to be None
IsEmptyRose_Both(dir_vt, speed_vt) == dir_vt.unit = NoneStr /\ speed_vt.unit = NoneStr

\* line 1194
IsEmptyRose(dir_vt, speed_vt) == dir_vt.unit = NoneStr \/ speed_vt.unit = NoneStr

\* lines 1195-1197; a name is the sequence of the texts it is made of, "" is <<>>
emptyWindRose == << [name |-> <<>>, data |-> <<>>] >>

\* lines 1374-1448: the 7 series of a unit with their data
RoseSeries(unit, data) ==
    [g \in 1..7 |-> [name        |-> <<SpeedRanges(unit)[g], " ", Labels(unit)>>,
                     type        |-> "column",
                     colorIndex  |-> g - 1,
                     zIndex      |-> 107 - g,
                     stacking    |-> "normal",
                     data        |-> data[g]]]

\* lines 1208-1297: the merged samples appended to group g, in their order
GroupSamples(merged, unit, g) ==
    SelectSeq(merged, LAMBDA windData : SpeedGroup(windData[2], unit) = g)

\* lines 1208-1297: group_0_windSpeed .. group_6_windSpeed
GroupSpeeds(merged, unit) ==
    [g \in 1..7 |->
        LET samples == GroupSamples(merged, unit, g - 1)
        IN  [x \in 1..Len(samples) |-> samples[x][2]]]

\* lines 1300-1306: group_g_windDir and group_g_windSpeed handed to
\* _create_windRose_data, for the groups 0..6
GroupData(merged, unit) ==
    [g \in 1..7 |->
        LET samples == GroupSamples(merged, unit, g - 1)
        IN  create_windRose_data([x \in 1..Len(samples) |-> samples[x][1]],
                                 [x \in 1..Len(samples) |-> samples[x][2]])]

\* lines 1165-1448: from the answers of the two queries to the returned series
WindRose(dirAnswer, speedAnswer, gu, formats) ==
    LET dir_vt     == SqlVector("windDir", dirAnswer)
        dirRound   == [i \in 1..Len(dir_vt.values) |-> roundNone(dir_vt.values[i], 0)]
        speed_vt   == Convert(SqlVector("windSpeed", speedAnswer), gu)
        usageRound == UsageRound(formats, speed_vt.group, <<"2", "f">>)
        speedRound == [i \in 1..Len(speed_vt.values) |->
                          roundNone(speed_vt.values[i], usageRound)]
        merged     == Zip(dirRound, speedRound)
        lists      == GroupData(merged, speed_vt.unit)
        total      == WindSum(lists)
    IN  IF IsEmptyRose(dir_vt, speed_vt)
        THEN [windDir_vt |-> dir_vt, windSpeed_vt |-> speed_vt, windroseList |-> <<>>,
              wind_sum |-> 0, group_windSpeed |-> <<>>, series_data |-> emptyWindRose]
        ELSE [windDir_vt |-> dir_vt, windSpeed_vt |-> speed_vt, windroseList |-> lists,
              wind_sum |-> total,
              group_windSpeed |-> GroupSpeeds(merged, speed_vt.unit),
              series_data |-> RoseSeries(speed_vt.unit, Normalise(lists, total))]

-----------------------------------------------------------------------------
(* The inputs of SpecRose *)

\* the most records the span of a wind rose holds
MaxWindRows == 2

\* windDir as the archive holds it, in 1/10000 degree
WindDirs == {Null, 0, 225000, 3590000}

\* windSpeed as the archive holds it, in 1/10000 mile per hour
WindSpeeds == {Null, 0, 10000, 35000, 70000}

WindRecords == [windDir : WindDirs, windSpeed : WindSpeeds]

\* the speeds of the records the archive gains between the query of line 1179
\* and the query of line 1188 (the archive thread runs beside the report)
LateRecords == { <<>>, <<70000>> }

\* the display unit of speed with its string format, as [Units] configures them
WindUnitConfigs ==
    { [gu |-> [group_speed |-> "mile_per_hour", group_direction |-> "degree_compass"],
       formats |-> [mile_per_hour |-> <<"%", ".", "0", "f">>]],
      [gu |-> [group_speed |-> "km_per_hour", group_direction |-> "degree_compass"],
       formats |-> [km_per_hour |-> <<"%", ".", "0", "f">>]],
      [gu |-> [group_speed |-> "meter_per_second", group_direction |-> "degree_compass"],
       formats |-> [meter_per_second |-> <<"%", ".", "1", "f">>]],
      [gu |-> [group_speed |-> "knot", group_direction |-> "degree_compass"],
       formats |-> [knot |-> <<"%", ".", "0", "f">>]] }

RoseLineOptions ==
    { <<>>,
      [aggregate_type |-> "avg", aggregate_interval |-> <<"3", "6", "0", "0">>],
      [aggregate_type |-> "max"] }

InitRose ==
    /\ PassIdle
    /\ SpanIdle
    /\ plot_options = <<>>
    /\ time_length = IntValue(Text86400)
    /\ \E u \in WindUnitConfigs : string_formats = u.formats /\ group_unit = u.gu
    /\ pc = "series"
    /\ SeriesIdle

\* run(), lines 1050-1148, for one windRose series with its options among
\* options, the archive's records among answers and the late records among lates
RoseStep(options, answers, lates) ==
    /\ pc = "series"
    /\ \E lo \in options :
         LET agg == SeriesAggregation(lo)
         IN  /\ observation' = "windRose"
             /\ line_options' = lo
             /\ aggregate_type' = agg.aggregate_type
             /\ aggregate_interval' = agg.aggregate_interval
             /\ IF agg.skip \/ agg.err # ""
                THEN /\ pc' = IF agg.skip THEN "skipped" ELSE "failed"
                     /\ err' = agg.err
                     /\ UNCHANGED <<query, rows, series_data, rounding, windDir_vt,
                                    windSpeed_vt, windroseList, wind_sum, group_windSpeed>>
                ELSE \E answer \in answers, late \in lates :
                     \E r \in {WindRose([i \in 1..Len(answer) |-> answer[i].windDir],
                                        [i \in 1..Len(answer) |-> answer[i].windSpeed] \o late,
                                        group_unit, string_formats)} :
                           /\ pc' = "done"
                           /\ err' = err
                           /\ rounding' = SeriesRounding("windRose", group_unit, string_formats)
                           /\ query' = [path |-> "vector", obs_lookup |-> "windSpeed",
                                        aggregate_type |-> NoneStr, aggregate_interval |-> None]
                           /\ rows' = answer
                           /\ windDir_vt' = r.windDir_vt
                           /\ windSpeed_vt' = r.windSpeed_vt
                           /\ windroseList' = r.windroseList
                           /\ wind_sum' = r.wind_sum
                           /\ group_windSpeed' = r.group_windSpeed
                           /\ series_data' = r.series_data
    /\ UNCHANGED <<start_ts, stop_ts, gen_ts, week_start, plot_options, time_length,
                   minstamp, maxstamp, plotgen_ts, fetch, unitVars, obs_vt, obsRound_vt,
                   passVars>>

RoseLine == RoseStep(RoseLineOptions, SeqsUpTo(WindRecords, MaxWindRows), LateRecords)

NextRose == RoseLine \/ NextLine

SpecRose == InitRose /\ [][NextRose]_vars

-----------------------------------------------------------------------------
(* The wind rose of one sample: the compass bucket of a direction *)

\* windDir from 0 to 360 degrees by half degrees
CompassDirs == { h * 5000 : h \in 0..720 }

\* one record of 2 mph from each direction
CompassAnswers == { << [windDir |-> d, windSpeed |-> 20000] >> : d \in CompassDirs }

InitCompass ==
    /\ InitRose
    /\ group_unit.group_speed = "mile_per_hour"

CompassLine == RoseStep({ <<>> }, CompassAnswers, { <<>> })

NextCompass == CompassLine \/ NextLine

SpecCompass == InitCompass /\ [][NextCompass]_vars

-----------------------------------------------------------------------------
(* The wind rose of a light and steady wind *)

\* windDir in 1/10000 degree: none, 0, 10 and 22.5 degrees
BreezeDirs == {Null, 0, 100000, 225000}

\* windSpeed in 1/10000 mile per hour: 0.1, 2 and 7 mph
BreezeSpeeds == {1000, 20000, 70000}

BreezeRecords == [windDir : BreezeDirs, windSpeed : BreezeSpeeds]

BreezeLine == RoseStep(MirrorOptions, SeqsUpTo(BreezeRecords, MaxWindRows), { <<>> })

NextBreeze == BreezeLine \/ NextLine

SpecBreeze == InitRose /\ [][NextBreeze]_vars

-----------------------------------------------------------------------------
(* A chart with rain series and a wind rose *)

\* the units of rain with miles per hour for the wind
MixedUnitConfigs ==
    { [gu |-> u.gu @@ w.gu, formats |-> u.formats @@ w.formats] :
          u \in UnitConfigs,
          w \in { k \in WindUnitConfigs : k.gu.group_speed = "mile_per_hour" } }

InitMixed ==
    /\ PassIdle
    /\ SpanIdle
    /\ plot_options \in GroupByOptions
    /\ time_length = StrValue(KW_week)
    /\ \E u \in MixedUnitConfigs : string_formats = u.formats /\ group_unit = u.gu
    /\ pc = "series"
    /\ SeriesIdle

NextMixed == Line \/ BreezeLine \/ NextLine

SpecMixed == InitMixed /\ [][NextMixed]_vars

-----------------------------------------------------------------------------
(* run(): one pass over the chart groups, lines 928-1160 *)

VERSION == "1.0.1"

DefaultColors ==
    "#7cb5ec, #b2df8a, #f7a35c, #8c6bb1, #dd3497, #e4d354, #268bd2, #f45b5b, #6a3d9a, #33a02c"

\* the group, the chart and the series that the loops of lines 932, 953 and
\* 1050 are at
Group == chart_dict[gi]
Plot == Group.charts[ci]
PlotLine == Plot.lines[li]

\* weeutil.weeutil.accumulateLeaves: the scalars of a section over those of
\* its parents (lines 934, 961 and 1054)
GroupLeaves(group) == group.options
PlotLeaves(group, plot) == plot.options @@ group.options
\* LineLeaves with the farther section over the nearer one
LineLeaves_GroupFirst(group, plot, line) == group.options @@ plot.options @@ line.options

LineLeaves(group, plot, line) == line.options @@ plot.options @@ group.options

\* a scalar under a key of the group's document; a chart's entry under a key
\* is a dict (lines 936-950 and 954)
HeadValue(v) == [value |-> v]

\* lines 933-950: the head of the group's document
GroupHead(group, now) ==
    LET chart_options == GroupLeaves(group)
        title == Get(chart_options, "title", NoneStr)
    IN  (IF title \notin {NoneStr, ""} THEN [chartgroup_title |-> HeadValue(title)]
         ELSE <<>>) @@
        [belchertown_version |-> HeadValue(VERSION),
         generated_timestamp |-> HeadValue(now),
         colors |-> HeadValue(Get(chart_options, "colors", DefaultColors)),
         tooltip_date_format |-> HeadValue(Get(chart_options, "tooltip_date_format", "LLLL"))]

\* lines 954-959 and 1017-1047: the chart's entry before its series
PlotEntry(group, plot) ==
    LET leaves  == PlotLeaves(group, plot)
        gapsize == Get(leaves, "gapsize", 300000)
        polar   == Get(leaves, "polar", NoneStr)
    IN  (IF polar \notin {NoneStr, ""} THEN [polar |-> polar] ELSE <<>>) @@
        [series |-> <<>>,
         options |->
            (IF Truthy(gapsize) THEN [gapsize |-> gapsize] ELSE <<>>) @@
            [renderTo |-> plot.name,
             chart_group |-> group.name,
             title |-> Get(leaves, "title", ""),
             subtitle |-> Get(leaves, "subtitle", ""),
             type |-> Get(leaves, "type", "line"),
             connectNulls |-> Get(leaves, "connectNulls", "false"),
             xaxis_categories |-> Get(leaves, "xaxis_categories", <<>>),
             plot_tooltip_date_format |-> Get(leaves, "tooltip_date_format", NoneStr)]]

\* line 1057
ObservationType(line_name, lo) == Get(lo, "observation_type", line_name)

\* lines 1060-1064; label_dict is a KeyDict over labels that name none of the
\* model's observations, so the name is the observation's key
SeriesName(lo, observation_type) ==
    LET name == Get(lo, "name", NoneStr)
    IN  IF name \in {NoneStr, ""} THEN observation_type ELSE name

\* lines 1066-1081: the label as the parts that are concatenated; the unit's
\* label is written as the unit's name
YAxisLabel(lo, observation_type, gu) ==
    LET obs_label  == IF observation_type = "rainTotal" THEN "rain" ELSE observation_type
        group      == ObsGroup(obs_label)
        unit_label == Get(lo, "yAxisLabel_unit",
                          IF group = NoneStr \/ group \notin DOMAIN gu THEN "" ELSE gu[group])
        yAxisLabel_config == Get(lo, "yAxisLabel", NoneStr)
    IN  IF yAxisLabel_config = NoneStr /\ unit_label # ""
        THEN <<SeriesName(lo, observation_type), " (", unit_label, ")">>
        ELSE IF yAxisLabel_config \notin {NoneStr, ""} THEN <<yAxisLabel_config>>
        ELSE <<>>

\* lines 1051-1052 and 1083: the series' entry when the aggregation options
\* are read
SeriesHead(line_name, yAxisLabel) == [obsType |-> line_name, yAxisLabel |-> yAxisLabel]

\* the options of a series whose values are configuration text
TextKeys == {"aggregate_interval", "yaxis_min", "yaxis_max"}

\* the rendering options of Highcharts that the series of the model set; their
\* values are what json.dumps writes: a string, a number or null
RenderingKeys == {"lineWidth", "color"}

JsonString(t) == [type |-> "string", text |-> t, n |-> 0]
JsonNumber(n) == [type |-> "number", text |-> <<>>, n |-> n]
JsonNull == [type |-> "null", text |-> <<>>, n |-> 0]

\* x.lower() == 'none'
IsNoneText(t) ==
    /\ Len(t) = 4
    /\ t[1] \in {"n", "N"} /\ t[2] \in {"o", "O"} /\ t[3] \in {"n", "N"} /\ t[4] \in {"e", "E"}

\* the values of an entry left as they are configured
to_int_Verbatim(k, v) == v

\* weeutil.weeutil.to_int(v) inside the try of lines 1651-1655: the value is
\* kept when int() raises
to_int(k, v) ==
    CASE k \in TextKeys ->
            IF IsIntLiteral(v) THEN ParseInt(v) ELSE IF IsNoneText(v) THEN NoneStr ELSE v
      [] k \in RenderingKeys ->
            IF IsIntLiteral(v.text) THEN JsonNumber(ParseInt(v.text))
            ELSE IF IsNoneText(v.text) THEN JsonNull ELSE v
      [] k = "rounding" -> IF v = "-1" THEN 0 - 1 ELSE IF IsDigit(v) THEN DigitVal(v) ELSE v
      [] k \in {"data", "yAxisLabel"} -> v
      [] OTHER -> IF v \in {"None", "none"} THEN NoneStr ELSE v

\* lines 1640-1657, for an entry without nested sections
highchartsSeriesOptionsToInt(d) == [k \in DOMAIN d |-> to_int(k, d[k])]

\* lines 1104-1148: the entry of a series that is not skipped; own is the
\* series' own section, lo its accumulated options
SeriesEntry(line_name, own, lo, observation_type, yAxisLabel, obs_round, data) ==
    LET yaxis_min == Get(lo, "yaxis_min", <<>>)
        yaxis_max == Get(lo, "yaxis_max", <<>>)
    IN  highchartsSeriesOptionsToInt(
            [data |-> data, rounding |-> obs_round] @@
            (IF yaxis_max # <<>> THEN [yaxis_max |-> yaxis_max] ELSE <<>>) @@
            (IF yaxis_min # <<>> THEN [yaxis_min |-> yaxis_min] ELSE <<>>) @@
            [name |-> SeriesName(lo, observation_type)] @@
            own @@
            SeriesHead(line_name, yAxisLabel))

\* the first column of the rows of a group-by query (lines 1494-1497 and
\* 1511): strftime("%m") of the rows' months, from January on
RowLabels(n) == SubSeq(<<"01", "02", "03", "04", "05", "06">>, 1, n)

\* the dict of a group-by series with the query's labels whatever the chart
\* configures
GroupByDict_SqlLabels(xaxis_categories, xaxis_labels, obsvalues) ==
    [use_sql_labels |-> TRUE, xaxis_groupby_labels |-> xaxis_labels,
     xaxis_groupby_data |-> obsvalues]

\* lines 1522-1527: what _getObservationData returns for a group-by series
GroupByDict(xaxis_categories, xaxis_labels, obsvalues) ==
    IF Len(xaxis_categories) = 0
    THEN [use_sql_labels |-> TRUE, xaxis_groupby_labels |-> xaxis_labels,
          xaxis_groupby_data |-> obsvalues]
    ELSE [use_sql_labels |-> FALSE, xaxis_groupby_labels |-> <<>>,
          xaxis_groupby_data |-> obsvalues]

\* lines 1136-1140: the chart's xaxis_categories after a series, as the
\* options to put over the chart's
SqlCategories(opts, obsvalues) ==
    LET d == GroupByDict(Get(opts, "xaxis_categories", <<>>), RowLabels(Len(obsvalues)),
                         obsvalues)
    IN  IF IsGroupBy(opts) /\ d.use_sql_labels
        THEN [xaxis_categories |-> d.xaxis_groupby_labels] ELSE <<>>

\* the position of the loop of line 1050 after the series at i of n is
\* skipped, leaving the loop
AfterSeries_Break(i, n, skipped) == IF skipped THEN n + 1 ELSE i + 1

\* the position of the loop of line 1050 after the series at i of n: the
\* continue of line 1097 goes on to the next series
AfterSeries(i, n, skipped) == i + 1

\* OrderedDict.__setitem__ with a new key put first
OrderedKeys_Front(keys, k) ==
    IF \E i \in 1..Len(keys) : keys[i] = k THEN keys ELSE <<k>> \o keys

\* OrderedDict.__setitem__ (lines 933 and 955): a new key goes last, a key
\* that is there keeps its place
OrderedKeys(keys, k) ==
    IF \E i \in 1..Len(keys) : keys[i] = k THEN keys ELSE Append(keys, k)

\* lines 936-950: the keys of the group's head in the order they are set
GroupHeadKeys(group) ==
    <<"belchertown_version", "generated_timestamp", "colors">> \o
    (IF Get(GroupLeaves(group), "title", NoneStr) \notin {NoneStr, ""}
     THEN <<"chartgroup_title">> ELSE <<>>) \o
    <<"tooltip_date_format">>

\* json.dumps(output[chart_group]) as a file's text: the document, the order
\* of its keys, and how much of the text the file holds
FileText(doc, order, part) == [doc |-> doc, order |-> order, part |-> part]

\* lines 932-950
BeginGroup ==
    /\ pc = "group"
    /\ gi <= Len(chart_dict)
    /\ \E now \in WallClock :
         output' = (Group.name :> GroupHead(Group, now)) @@ output
    /\ key_order' = (Group.name :> [keys |-> GroupHeadKeys(Group), series |-> <<>>])
                        @@ key_order
    /\ ci' = 1
    /\ li' = 0
    /\ pc' = "run"
    /\ UNCHANGED <<start_ts, stop_ts, gen_ts, week_start, plot_options, time_length,
                   minstamp, maxstamp, plotgen_ts, err, fetch, unitVars, seriesVars,
                   chart_dict, archive, gi, json_files, disk, seen>>

\* lines 953-1047: the chart's entry and its time span
PassChart ==
    /\ pc = "run"
    /\ gi \in 1..Len(chart_dict)
    /\ ci <= Len(Group.charts)
    /\ ChartStep({ PlotLeaves(Group, Plot) })
    /\ output' = [output EXCEPT ![Group.name] = (Plot.name :> PlotEntry(Group, Plot)) @@ @]
    /\ key_order' = [key_order EXCEPT ![Group.name] =
                        [keys |-> OrderedKeys(@.keys, Plot.name),
                         series |-> (Plot.name :> <<>>) @@ @.series]]
    /\ li' = 1
    /\ UNCHANGED <<chart_dict, archive, gi, ci, json_files, disk, seen>>

\* line 1050: the loop over the chart's series begins
FirstLine ==
    /\ pc = "resolved"
    /\ gi \in 1..Len(chart_dict)
    /\ pc' = "series"
    /\ UNCHANGED <<start_ts, stop_ts, gen_ts, week_start, plot_options, time_length,
                   minstamp, maxstamp, plotgen_ts, err, fetch, unitVars, seriesVars,
                   passVars>>

\* lines 1050-1148 for the series at li
PassLine ==
    /\ pc = "series"
    /\ gi \in 1..Len(chart_dict)
    /\ li <= Len(Plot.lines)
    /\ LET lo  == LineLeaves(Group, Plot, PlotLine)
           obs == ObservationType(PlotLine.name, lo)
           yAxisLabel == YAxisLabel(lo, obs, group_unit)
       IN  /\ LineStep({obs}, {lo}, {archive})
           /\ \E entry \in { IF pc' = "done"
                             THEN SeriesEntry(PlotLine.name, PlotLine.options, lo, obs,
                                              yAxisLabel, rounding', series_data')
                             ELSE SeriesHead(PlotLine.name, yAxisLabel) } :
                output' = [output EXCEPT ![Group.name] = [@ EXCEPT ![Plot.name] =
                              [@ EXCEPT !.series = (PlotLine.name :> entry) @@ @,
                                        !.options =
                                            (IF pc' = "done"
                                             THEN SqlCategories(plot_options, series_data')
                                             ELSE <<>>) @@
                                            [yAxisLabel |-> yAxisLabel] @@ @]]]
    /\ key_order' = [key_order EXCEPT ![Group.name].series[Plot.name] =
                        OrderedKeys(@, PlotLine.name)]
    /\ li' = AfterSeries(li, Len(Plot.lines), pc' = "skipped")
    /\ UNCHANGED <<chart_dict, archive, gi, ci, json_files, disk, seen>>

\* the loop of line 1050 is over: the loop of line 953 goes on
EndChart ==
    /\ pc = "series"
    /\ gi \in 1..Len(chart_dict)
    /\ li > Len(Plot.lines)
    /\ pc' = "run"
    /\ ci' = ci + 1
    /\ li' = 0
    /\ plot_options' = <<>>
    /\ time_length' = StrValue(<<>>)
    /\ minstamp' = None
    /\ maxstamp' = None
    /\ plotgen_ts' = None
    /\ UNCHANGED <<start_ts, stop_ts, gen_ts, week_start, err, fetch, unitVars, seriesVars,
                   chart_dict, archive, gi, output, json_files, key_order, disk, seen>>

\* lines 1150-1156: the group's document is written
WriteGroup ==
    /\ pc = "run"
    /\ gi \in 1..Len(chart_dict)
    /\ ci > Len(Group.charts)
    /\ json_files' = (Group.name :> output[Group.name]) @@ json_files
    /\ disk' = (Group.name :> FileText(output[Group.name], key_order[Group.name], "all"))
                   @@ disk
    /\ gi' = gi + 1
    /\ ci' = 0
    /\ pc' = IF gi < Len(chart_dict) THEN "group" ELSE "end"
    /\ UNCHANGED <<start_ts, stop_ts, gen_ts, week_start, plot_options, time_length,
                   minstamp, maxstamp, plotgen_ts, err, fetch, unitVars, seriesVars,
                   chart_dict, archive, li, output, key_order, seen>>

-----------------------------------------------------------------------------
(* The inputs of SpecPass: groups of charts of rain series *)

MaxCharts == 2
MaxLines == 2

GroupNames == <<"day", "week", "month">>
PlotNames == <<"chart1", "chart2", "chart3", "chart4">>
LineNames == <<"rainTotal", "rainRate", "rainTotal2", "rainRate2">>

\* a series without aggregation, one with its type and interval, and one with
\* a type and no interval
PassLineOptions ==
    { <<>>,
      [aggregate_type |-> "sum", aggregate_interval |-> <<"3", "6", "0", "0">>],
      [aggregate_type |-> "max"] }

\* the section of the series at i of a chart; from the third on the section
\* names the observation of its data
LineSection(i, o) ==
    [name |-> LineNames[i],
     options |-> IF i > 2 THEN [observation_type |-> LineNames[i - 2]] @@ o ELSE o]

LineSections ==
    { [i \in DOMAIN f |-> LineSection(i, f[i])] :
          f \in UNION { [1..n -> PassLineOptions] : n \in 1..MaxLines } }

PlotSections(n) ==
    { [j \in 1..n |-> [name |-> PlotNames[j], options |-> <<>>, lines |-> f[j]]] :
          f \in [1..n -> LineSections] }

\* graphs.conf: the charts in one group, or the last chart in a group of its own
PassConfigs ==
    UNION { { << [name |-> GroupNames[1], options |-> <<>>, charts |-> cs] >> :
                  cs \in PlotSections(n) } : n \in 1..MaxCharts }
    \cup
    UNION { { << [name |-> GroupNames[1], options |-> <<>>, charts |-> SubSeq(cs, 1, n - 1)],
                 [name |-> GroupNames[2], options |-> <<>>, charts |-> <<cs[n]>>] >> :
                  cs \in PlotSections(n) } : n \in 2..MaxCharts }

\* what the archive answers to every query of the pass
PassArchive == <<1000, Null, 2500>>

PassUnitConfigs == { u \in UnitConfigs : u.gu.group_rain = "cm" }

InitPass ==
    /\ SpanIdle
    /\ plot_options = <<>>
    /\ time_length = StrValue(<<>>)
    /\ \E u \in PassUnitConfigs : string_formats = u.formats /\ group_unit = u.gu
    /\ pc = "group"
    /\ SeriesIdle
    /\ chart_dict \in PassConfigs
    /\ archive = PassArchive
    /\ gi = 1 /\ ci = 0 /\ li = 0
    /\ output = <<>>
    /\ json_files = <<>>
    /\ key_order = <<>>
    /\ disk = <<>>
    /\ seen = <<>>

NextPass == BeginGroup \/ PassChart \/ FirstLine \/ PassLine \/ NextLine \/ EndChart
               \/ WriteGroup

SpecPass == InitPass /\ [][NextPass]_vars

-----------------------------------------------------------------------------
(* The inputs of SpecPoints: one chart of one rain series, over every window *)

PointsChartOptions == { o \in ChartOptions : ~IsGroupBy(o) }

PointsLineOptions ==
    { <<>>, [aggregate_type |-> "sum", aggregate_interval |-> <<"3", "6", "0", "0">>] }

PointsConfigs ==
    { << [name |-> GroupNames[1], options |-> <<>>,
          charts |-> << [name |-> PlotNames[1], options |-> o,
                         lines |-> << LineSection(i, lo) >>] >>] >> :
          o \in PointsChartOptions, i \in 1..2, lo \in PointsLineOptions }

InitPoints ==
    /\ stop_ts = Mktime(2020, 3, 2, 0)
    /\ start_ts = stop_ts - 400 * 86400
    /\ gen_ts = 0 /\ week_start = 6
    /\ minstamp = None /\ maxstamp = None /\ plotgen_ts = None
    /\ err = "" /\ fetch = NoFetch
    /\ plot_options = <<>>
    /\ time_length = StrValue(<<>>)
    /\ \E u \in PassUnitConfigs : string_formats = u.formats /\ group_unit = u.gu
    /\ pc = "group"
    /\ SeriesIdle
    /\ chart_dict \in PointsConfigs
    /\ archive = PassArchive
    /\ gi = 1 /\ ci = 0 /\ li = 0
    /\ output = <<>>
    /\ json_files = <<>>
    /\ key_order = <<>>
    /\ disk = <<>>
    /\ seen = <<>>

SpecPoints == InitPoints /\ [][NextPass]_vars

-----------------------------------------------------------------------------
(* run(), lines 1150-1156, beside a reader of HTML_ROOT/json (SpecPublish) *)

\* the wall clock of the pass before this one
EarlierClock == Mktime(2020, 3, 1, 0) + 125

\* the file an earlier pass left for the group: the group's head of that time
PreviousFile(group) ==
    FileText(GroupHead(group, EarlierClock),
             [keys |-> GroupHeadKeys(group), series |-> <<>>], "all")

\* line 1155, open(json_filename, mode='w'): the file is there and empty
OpenFile ==
    /\ pc = "run"
    /\ gi \in 1..Len(chart_dict)
    /\ ci > Len(Group.charts)
    /\ pc' = "open"
    /\ disk' = (Group.name :> FileText(output[Group.name], key_order[Group.name], "none"))
                   @@ disk
    /\ UNCHANGED <<start_ts, stop_ts, gen_ts, week_start, plot_options, time_length,
                   minstamp, maxstamp, plotgen_ts, err, fetch, unitVars, seriesVars,
                   chart_dict, archive, gi, ci, li, output, json_files, key_order, seen>>

\* line 1156, jf.write(...): the buffer of the file object is full and its
\* text goes to the file, the rest of the text is still to come
FlushFile ==
    /\ pc = "open"
    /\ disk[Group.name].part = "none"
    /\ disk' = [disk EXCEPT ![Group.name].part = "some"]
    /\ UNCHANGED <<spanVars, unitVars, seriesVars,
                   chart_dict, archive, gi, ci, li, output, json_files, key_order, seen>>

\* the end of the with statement of line 1155: the file holds the whole text
CloseFile ==
    /\ pc = "open"
    /\ json_files' = (Group.name :> output[Group.name]) @@ json_files
    /\ disk' = [disk EXCEPT ![Group.name].part = "all"]
    /\ gi' = gi + 1
    /\ ci' = 0
    /\ pc' = IF gi < Len(chart_dict) THEN "group" ELSE "end"
    /\ UNCHANGED <<start_ts, stop_ts, gen_ts, week_start, plot_options, time_length,
                   minstamp, maxstamp, plotgen_ts, err, fetch, unitVars, seriesVars,
                   chart_dict, archive, li, output, key_order, seen>>

\* a reader (the page's script, the web server) reads one of the files
ReadFile ==
    /\ \E name \in DOMAIN disk :
         /\ seen # << [name |-> name, file |-> disk[name]] >>
         /\ seen' = << [name |-> name, file |-> disk[name]] >>
    /\ UNCHANGED <<spanVars, unitVars, seriesVars,
                   chart_dict, archive, gi, ci, li, output, json_files, key_order, disk>>

\* a chart or a series that ends the pass with a ValueError, and ones that do not
PublishChartOptions == { <<>>, [time_length |-> <<"f", "o", "r", "t", "n", "i", "g", "h", "t">>] }
PublishLineOptions ==
    { <<>>, [aggregate_type |-> "avg", aggregate_interval |-> <<"1", "h">>] }

PublishGroup(g, o, lo) ==
    [name |-> GroupNames[g], options |-> <<>>,
     charts |-> << [name |-> PlotNames[1], options |-> o,
                    lines |-> << LineSection(1, lo) >>] >>]

PublishConfigs ==
    { << PublishGroup(1, o, lo) >> : o \in PublishChartOptions, lo \in PublishLineOptions }
    \cup
    { << PublishGroup(1, o1, lo1), PublishGroup(2, o2, lo2) >> :
          o1 \in PublishChartOptions, lo1 \in PublishLineOptions,
          o2 \in PublishChartOptions, lo2 \in PublishLineOptions }

InitPublish ==
    /\ SpanIdle
    /\ plot_options = <<>>
    /\ time_length = StrValue(<<>>)
    /\ \E u \in PassUnitConfigs : string_formats = u.formats /\ group_unit = u.gu
    /\ pc = "group"
    /\ SeriesIdle
    /\ chart_dict \in PublishConfigs
    /\ archive = PassArchive
    /\ gi = 1 /\ ci = 0 /\ li = 0
    /\ output = <<>>
    /\ json_files = <<>>
    /\ key_order = <<>>
    /\ disk = [name \in { GroupNames[g] : g \in 1..Len(chart_dict) } |->
                  PreviousFile(chart_dict[CHOOSE g \in 1..Len(chart_dict) :
                                              GroupNames[g] = name])]
    /\ seen = <<>>

NextPublish == BeginGroup \/ PassChart \/ FirstLine \/ PassLine \/ NextLine \/ EndChart
                  \/ OpenFile \/ FlushFile \/ CloseFile \/ ReadFile

SpecPublish == InitPublish /\ [][NextPublish]_vars

-----------------------------------------------------------------------------
(* The inputs of SpecInherit: options set on the group, the chart, the series *)

\* name and type set or not on a section, each section with values of its own
LevelOptions(name, type) ==
    { n @@ t : n \in { <<>>, [name |-> name] }, t \in { <<>>, [type |-> type] } }

\* time_length set or not on a group or a chart
LevelWindows(window) == { <<>>, [time_length |-> window] }

InheritConfigs ==
    { << [name |-> GroupNames[1], options |-> go @@ gw,
          charts |-> << [name |-> PlotNames[1], options |-> co @@ cw,
                         lines |-> << [name |-> LineNames[1], options |-> lo] >>] >>] >> :
          go \in LevelOptions("group name", "column"), gw \in LevelWindows(KW_week),
          co \in LevelOptions("chart name", "bar"), cw \in LevelWindows(KW_month),
          lo \in LevelOptions("series name", "spline") }

InitInherit ==
    /\ stop_ts = Mktime(2020, 3, 2, 0)
    /\ start_ts = stop_ts - 400 * 86400
    /\ gen_ts = 0 /\ week_start = 6
    /\ minstamp = None /\ maxstamp = None /\ plotgen_ts = None
    /\ err = "" /\ fetch = NoFetch
    /\ plot_options = <<>>
    /\ time_length = StrValue(<<>>)
    /\ \E u \in PassUnitConfigs : string_formats = u.formats /\ group_unit = u.gu
    /\ pc = "group"
    /\ SeriesIdle
    /\ chart_dict \in InheritConfigs
    /\ archive = PassArchive
    /\ gi = 1 /\ ci = 0 /\ li = 0
    /\ output = <<>>
    /\ json_files = <<>>
    /\ key_order = <<>>
    /\ disk = <<>>
    /\ seen = <<>>

SpecInherit == InitInherit /\ [][NextPass]_vars

-----------------------------------------------------------------------------
(* The inputs of SpecCategories: charts whose series are grouped *)

CategoryList == <<"Jan", "Feb", "Mar">>

CategoryChartOptions ==
    { [time_length |-> KW_year] @@ o :
          o \in { [xaxis_groupby |-> <<"m", "o", "n", "t", "h">>],
                  [xaxis_groupby |-> <<"m", "o", "n", "t", "h">>,
                   xaxis_categories |-> CategoryList],
                  [xaxis_categories |-> CategoryList] } }

CategoryLineOptions ==
    { <<>>,
      [aggregate_type |-> "max", aggregate_interval |-> <<"8", "6", "4", "0", "0">>],
      [mirrored_value |-> "true"] }

CategoryConfigs ==
    { << [name |-> GroupNames[1], options |-> <<>>,
          charts |-> << [name |-> PlotNames[1], options |-> o,
                         lines |-> [i \in DOMAIN f |-> LineSection(i, f[i])]] >>] >> :
          o \in CategoryChartOptions,
          f \in [1..1 -> CategoryLineOptions] \cup [1..2 -> CategoryLineOptions] }

\* the sums of the months of the year: IFNULL(...) leaves no None
CategoryArchive == <<1000, 0, 2500>>

InitCategories ==
    /\ stop_ts = Mktime(2020, 3, 2, 0)
    /\ start_ts = stop_ts - 400 * 86400
    /\ gen_ts = 0 /\ week_start = 6
    /\ minstamp = None /\ maxstamp = None /\ plotgen_ts = None
    /\ err = "" /\ fetch = NoFetch
    /\ plot_options = <<>>
    /\ time_length = StrValue(<<>>)
    /\ \E u \in PassUnitConfigs : string_formats = u.formats /\ group_unit = u.gu
    /\ pc = "group"
    /\ SeriesIdle
    /\ chart_dict \in CategoryConfigs
    /\ archive = CategoryArchive
    /\ gi = 1 /\ ci = 0 /\ li = 0
    /\ output = <<>>
    /\ json_files = <<>>
    /\ key_order = <<>>
    /\ disk = <<>>
    /\ seen = <<>>

SpecCategories == InitCategories /\ [][NextPass]_vars

-----------------------------------------------------------------------------
(* The inputs of SpecOptions: a series with rendering options of Highcharts *)

\* the texts of graphs.conf given to the rendering options
RenderingTexts ==
    { <<"2">>, <<"0", "0", "7">>, <<" ", "3">>, <<"2", ".", "5">>, <<"r", "e", "d">>,
      <<"n", "o", "n", "e">>, <<"N", "o", "n", "e">> }

RenderingOptions ==
    { w @@ c :
        w \in { <<>> } \cup { [lineWidth |-> JsonString(t)] : t \in RenderingTexts },
        c \in { <<>> } \cup { [color |-> JsonString(t)] : t \in RenderingTexts } }

OptionsConfigs ==
    { << [name |-> GroupNames[1], options |-> <<>>,
          charts |-> << [name |-> PlotNames[1], options |-> <<>>,
                         lines |-> << LineSection(1, o) >>] >>] >> :
          o \in RenderingOptions }

InitOptions ==
    /\ SpanIdle
    /\ plot_options = <<>>
    /\ time_length = StrValue(<<>>)
    /\ \E u \in PassUnitConfigs : string_formats = u.formats /\ group_unit = u.gu
    /\ pc = "group"
    /\ SeriesIdle
    /\ chart_dict \in OptionsConfigs
    /\ archive = PassArchive
    /\ gi = 1 /\ ci = 0 /\ li = 0
    /\ output = <<>>
    /\ json_files = <<>>
    /\ key_order = <<>>
    /\ disk = <<>>
    /\ seen = <<>>

SpecOptions == InitOptions /\ [][NextPass]_vars

-----------------------------------------------------------------------------
(* The inputs of SpecMirror: the texts given to mirrored_value *)

FlagOptions ==
    { <<>>, [mirrored_value |-> "true"], [mirrored_value |-> "false"],
      [mirrored_value |-> "0"] }

FlagAnswers ==
    SeqsUpTo(IF IsGroupBy(plot_options) THEN {1000, 2000} ELSE {Null, 1000}, MaxRows)

FlagLine == LineStep(SeriesObservations, FlagOptions, FlagAnswers) /\ UNCHANGED passVars

NextMirror == FlagLine \/ NextLine

SpecMirror == InitRain /\ [][NextMirror]_vars

-----------------------------------------------------------------------------
(* The inputs of SpecNames: charts named as the keys of the head are *)

\* the names of the [[chart]] sections of a group
SectionNames == {"chart1", "chart2", "colors", "belchertown_version", "tooltip_date_format"}

NamedGroupOptions == { <<>>, [title |-> "Day"] }

\* one group of one or two charts of one rain series each; the names of the
\* sections of a group are distinct
NamesConfigs ==
    { << [name |-> GroupNames[1], options |-> o,
          charts |-> [c \in 1..Len(names) |->
                         [name |-> names[c], options |-> <<>>,
                          lines |-> << LineSection(1, <<>>) >>]]] >> :
          o \in NamedGroupOptions,
          names \in { n \in SeqsUpTo(SectionNames, MaxCharts) :
                         Len(n) >= 1 /\ \A i, j \in 1..Len(n) : n[i] = n[j] => i = j } }

InitNames ==
    /\ SpanIdle
    /\ plot_options = <<>>
    /\ time_length = StrValue(<<>>)
    /\ \E u \in PassUnitConfigs : string_formats = u.formats /\ group_unit = u.gu
    /\ pc = "group"
    /\ SeriesIdle
    /\ chart_dict \in NamesConfigs
    /\ archive = PassArchive
    /\ gi = 1 /\ ci = 0 /\ li = 0
    /\ output = <<>>
    /\ json_files = <<>>
    /\ key_order = <<>>
    /\ disk = <<>>
    /\ seen = <<>>

SpecNames == InitNames /\ [][NextPass]_vars

-----------------------------------------------------------------------------
(* Claims about the time span of a chart (SpecSpan) *)

ConfiguredTimeLength == Get(plot_options, "time_length", Text86400)

SpanResolved == pc \in {"resolved", "fetched"}

\* C1: for a chart whose time_length is an integer literal n, the resolved span
\* has maxstamp - minstamp = n, whether plotgen_ts came from gen_ts, from the
\* archive's last timestamp or from the wall clock.
C1_RollingSpanLength ==
    (SpanResolved /\ IsIntLiteral(ConfiguredTimeLength))
        => /\ time_length.isint
           /\ maxstamp - minstamp = ParseInt(ConfiguredTimeLength)
           /\ maxstamp = plotgen_ts

\* C1 witness: a window of 3600 s resolved with the wall clock as its end (no
\* generation time, empty archive).
C1_Witness ==
    /\ pc = "resolved"
    /\ ConfiguredTimeLength = <<"3", "6", "0", "0">>
    /\ gen_ts = 0 /\ stop_ts = None
    /\ plotgen_ts \in WallClock
    /\ maxstamp - minstamp = 3600

\* C2: for today, week, month and year the resolved span holds its anchor, the
\* archive's last timestamp (minstamp <= anchor <= maxstamp), and the span is a
\* function of the specifier, the anchor and the week start alone: resolving
\* again with that anchor and week start, whatever the other inputs, gives the
\* same span.
C2_ContainingSpan ==
    (SpanResolved /\ ConfiguredTimeLength \in ContainingKeywords)
        => /\ minstamp <= stop_ts /\ stop_ts <= maxstamp
           /\ \A first \in {None, start_ts}, pg \in WallClock \cup {stop_ts}, a \in TimeAgoTexts :
                LET again == ResolveSpan([time_length |-> ConfiguredTimeLength, time_ago |-> a],
                                         first, stop_ts, pg, week_start)
                IN  IsIntLiteral(a) =>
                      /\ again.err = ""
                      /\ again.minstamp = minstamp
                      /\ again.maxstamp = maxstamp

\* C2 witness: today resolved, with a time_ago option present, for an archive
\* whose last record is stamped exactly midnight: the anchor is the span's end.
C2_Witness ==
    /\ pc = "resolved"
    /\ ConfiguredTimeLength = KW_today
    /\ "time_ago" \in DOMAIN plot_options
    /\ stop_ts = Mktime(2020, 3, 2, 0)
    /\ maxstamp = stop_ts

\* C3 (as claimed): every span handed to a query has start < end, for every
\* specifier, a rolling window of n <= 0 and an archive of zero or one record
\* included.
C3_SpanNonEmpty ==
    pc = "fetched" => fetch.start < fetch.stop

\* C4: a time_length that is neither a keyword nor an integer literal ends the
\* resolution with an error; no span is set and nothing is fetched with a
\* default window.
C4_UnknownSpecifierFails ==
    (pc # "run" /\ ConfiguredTimeLength \notin Keywords /\ ~IsIntLiteral(ConfiguredTimeLength))
        => /\ pc = "failed"
           /\ err = "ValueError"
           /\ minstamp = None /\ maxstamp = None
           /\ fetch = NoFetch

\* C4 witness: the chart with time_length = fortnight has failed.
C4_Witness ==
    /\ pc = "failed"
    /\ ConfiguredTimeLength = <<"f", "o", "r", "t", "n", "i", "g", "h", "t">>
    /\ err = "ValueError"

-----------------------------------------------------------------------------
(* Claims about the rain counter and the aggregation of rain (SpecRain) *)

\* a rainTotal series that went through the rain counter
RainDone == pc = "done" /\ observation = "rainTotal" /\ query.path = "vector"

Mirrored == Get(line_options, "mirrored_value", NoneStr) \notin {NoneStr, ""}

\* the sum of the first i values, a missing value counted as 0
RECURSIVE PrefixSum(_, _)
PrefixSum(values, i) ==
    IF i = 0 THEN 0
    ELSE PrefixSum(values, i - 1) + (IF values[i] = Null THEN 0 ELSE values[i])

\* C5: a rainTotal series has one point per fetched value, in the order of the
\* fetch; the i-th accumulated value is the sum of the first i (converted)
\* values, None counted as 0, rounded to 2 decimals, and the count is never
\* started again within the span. The point carries that value (its negation
\* when the series is mirrored).
C5_RainRunningSum ==
    RainDone =>
        /\ Len(series_data) = Len(rows)
        /\ Len(obsRound_vt) = Len(rows)
        /\ \A i \in 1..Len(rows) :
             /\ obs_vt.values[i] = ConvertValue(rows[i], group_unit["group_rain"])
             /\ obsRound_vt[i] = RoundHalfAway(PrefixSum(obs_vt.values, i), 100)
             /\ series_data[i][2] = IF Mirrored THEN 0 - obsRound_vt[i] ELSE obsRound_vt[i]
             /\ i > 1 => series_data[i - 1][1] < series_data[i][1]

\* C5 witness: bucket tips of 0.1, 0.0 and 0.2 inch give 0.10, 0.10, 0.30.
C5_Witness ==
    /\ RainDone /\ ~Mirrored
    /\ group_unit["group_rain"] = "inch"
    /\ rows = <<1000, 0, 2000>>
    /\ [i \in 1..3 |-> series_data[i][2]] = <<1000, 1000, 3000>>

\* C6: for a rainTotal series that is not mirrored, the values never decrease
\* when no fetched value is negative, and are all the same when every fetched
\* value is None.
C6_RainMonotone ==
    (RainDone /\ ~Mirrored) =>
        /\ (\A i \in 1..Len(rows) : rows[i] = Null \/ rows[i] >= 0)
              => \A i \in 2..Len(rows) : series_data[i - 1][2] <= series_data[i][2]
        /\ (\A i \in 1..Len(rows) : rows[i] = Null)
              => \A i, j \in 1..Len(rows) : series_data[i][2] = series_data[j][2]

\* C6 witness: a None between two tips, in centimetres: 0.25, 0.25, 0.76.
C6_Witness ==
    /\ RainDone /\ ~Mirrored
    /\ group_unit["group_rain"] = "cm"
    /\ rows = <<1000, Null, 2000>>
    /\ [i \in 1..3 |-> series_data[i][2]] = <<2500, 2500, 7600>>

\* the precision [Units][StringFormats] configures for the display unit of rain
ConfiguredRainPlaces ==
    UsageRound(string_formats, group_unit["group_rain"], <<"2", "f">>)

\* C7 (as claimed): the rain counter rounds the running sum to the precision
\* configured for the display unit of rain.
C7_RainConfiguredPrecision ==
    RainDone =>
        \A i \in 1..Len(rows) :
            obsRound_vt[i] = RoundPlaces(PrefixSum(obs_vt.values, i), ConfiguredRainPlaces)

ConfiguredAggregateType == Get(line_options, "aggregate_type", NoneStr)

HasConfiguredInterval == "aggregate_interval" \in DOMAIN line_options

\* a rain series whose vector was fetched
VectorDone ==
    pc = "done" /\ query.path = "vector" /\ observation \in {"rainRate", "rainTotal"}

ForcedType == IF observation = "rainRate" THEN "max" ELSE "sum"

-----------------------------------------------------------------------------
(* Claims about the wind rose (SpecRose) *)

RoseDone == pc = "done" /\ observation = "windRose"

\* the sum of all values of the returned series
RoseTotal == Sum([g \in 1..Len(series_data) |-> Sum(series_data[g].data)])

\* the samples of the merged input with a direction and a speed
ValidSamples ==
    { i \in 1..Len(Zip(windDir_vt.values, windSpeed_vt.values)) :
          windDir_vt.values[i] # Null /\ windSpeed_vt.values[i] # Null }

\* the elements of windroseList that hold a magnitude
NonZeroBuckets ==
    { gb \in (1..Len(windroseList)) \X (1..16) : windroseList[gb[1]][gb[2]] # 0 }

\* C9 (as claimed): whenever the wind input holds a sample with a direction
\* and a speed, the values of the wind rose sum to 100 within the error of
\* rounding 112 buckets, half a percent each.
C9_Original ==
    RoseDone /\ ValidSamples # {} =>
        2 * Abs(RoseTotal - 100 * 10000) <= 112 * 10000

\* C9 (amended): when the grand total of the magnitudes is positive the values
\* of the wind rose sum to 100 within half a percent for each bucket that
\* holds a magnitude; when it is zero every value is 0 and so is the sum.
C9_RoseSumsToHundred ==
    RoseDone /\ windroseList # <<>> =>
        /\ wind_sum > 0 =>
               2 * Abs(RoseTotal - 100 * 10000) <= Cardinality(NonZeroBuckets) * 10000
        /\ wind_sum = 0 => RoseTotal = 0
        /\ wind_sum >= 0

\* 1 mph and 7 mph in mph: 12.5 % and 87.5 % become 13 and 88, the sum is 101
C9_Witness ==
    /\ RoseDone
    /\ wind_sum = 80000
    /\ Cardinality(NonZeroBuckets) = 2
    /\ RoseTotal = 101 * 10000

\* C10: when the fetched direction vector or the fetched speed vector holds no
\* sample, the wind rose is one series with an empty name and no data.
C10_EmptyRose ==
    RoseDone /\ (Len(windDir_vt.values) = 0 \/ Len(windSpeed_vt.values) = 0) =>
        /\ Len(series_data) = 1
        /\ series_data[1].name = <<>>
        /\ series_data[1].data = <<>>

\* the direction query found nothing, the speed query one late record
C10_Witness ==
    /\ RoseDone
    /\ Len(windDir_vt.values) = 0
    /\ Len(windSpeed_vt.values) = 1
    /\ series_data = emptyWindRose

-----------------------------------------------------------------------------
(* Claims about the compass bucket of a direction (SpecCompass) *)

\* a wind rose of one sample that went into a bucket
OneSampleDone == RoseDone /\ Len(rows) = 1 /\ wind_sum > 0

\* the buckets, 0..15, that hold a magnitude in some group
SampleBuckets ==
    { b \in 0..15 : \E g \in 1..Len(windroseList) : windroseList[g][b + 1] # 0 }

\* the direction of the sample as fetched, and rounded to whole degrees
SampleDir == windDir_vt.values[1]
SampleDegrees == RoundHalfAway(SampleDir, 10000)

\* C11 (as claimed): the bucket a sample's speed is added to is
\* round((d + 11.25) / 22.5) mod 16, for its direction d: a whole number q
\* nearest to the quotient (a tie rounded either way), mod 16.
C11_Original ==
    OneSampleDone =>
        \A b \in SampleBuckets :
            \E q \in 0..17 :
                /\ q % 16 = b
                /\ 2 * Abs(q * 225000 - (SampleDir + 112500)) <= 225000

\* C11 (amended): the bucket b a sample's speed is added to is the sector of
\* 22.5 degrees centred on b * 22.5 that holds the direction rounded to whole
\* degrees: b * 22.5 - 11.25 <= D < b * 22.5 + 11.25 for D or D - 360, which is
\* the whole part of (D + 11.25) / 22.5, mod 16.
C11_CompassSector ==
    OneSampleDone =>
        /\ Cardinality(SampleBuckets) = 1
        /\ \A b \in SampleBuckets :
             \E turn \in {0, 3600000} :
                 /\ 225000 * b - 112500 <= SampleDegrees - turn
                 /\ SampleDegrees - turn < 225000 * b + 112500

\* 5 degrees lies in bucket 0; the rounded quotient would be 1
C11_Witness ==
    /\ OneSampleDone
    /\ SampleDir = 50000
    /\ SampleBuckets = {0}

\* C12: direction 0 goes to bucket 0, 22.5 to bucket 1, 359 to bucket 0, and
\* every direction from 0 to 360 goes to one bucket of 0..15.
C12_CompassExamples ==
    (RoseDone /\ Len(rows) = 1 /\ SampleDir # Null) =>
        /\ \E b \in 0..15 : SampleBuckets = {b}
        /\ SampleDir = 0 => SampleBuckets = {0}
        /\ SampleDir = 225000 => SampleBuckets = {1}
        /\ SampleDir = 3590000 => SampleBuckets = {0}

C12_Witness ==
    /\ OneSampleDone
    /\ SampleDir = 3590000
    /\ SampleBuckets = {0}

-----------------------------------------------------------------------------
(* Claims about the speed groups and the normalisation (SpecRose) *)

\* a wind rose that went past line 1198
RoseBuilt == RoseDone /\ windroseList # <<>>

\* the merged samples, line 1205
MergedCount == Len(Zip(windDir_vt.values, windSpeed_vt.values))

\* C13: every sample with a direction and a speed is in exactly one of the 7
\* speed groups: when all merged samples have both, the groups together hold
\* as many samples as were merged.
C13_ExactlyOneBin ==
    RoseBuilt /\ Cardinality(ValidSamples) = MergedCount =>
        Sum([g \in 1..7 |-> Len(group_windSpeed[g])]) = MergedCount

\* C14: when the grand total of the magnitudes is zero the wind rose is
\* returned without an error, 7 series of 16 values, every one of them 0.
C14_ZeroTotal ==
    RoseBuilt /\ wind_sum = 0 =>
        /\ err = ""
        /\ Len(series_data) = 7
        /\ \A g \in 1..7 :
             /\ Len(series_data[g].data) = 16
             /\ \A b \in 1..16 : series_data[g].data[b] = 0

\* two calm samples with a direction: the total is zero
C14_Witness ==
    /\ RoseBuilt
    /\ wind_sum = 0
    /\ Cardinality(ValidSamples) = 2
    /\ \A g \in 1..7 : \A b \in 1..16 : series_data[g].data[b] = 0

-----------------------------------------------------------------------------
(* Claims about a steady wind (SpecBreeze) *)

\* the speed of sample i as line 1191 rounds it
SampleSpeed(i) ==
    roundNone(windSpeed_vt.values[i],
              UsageRound(string_formats, windSpeed_vt.group, <<"2", "f">>))

\* every sample with a direction and a speed has a positive speed of group g
\* and a direction of bucket b, and there is such a sample
SameCell(g, b) ==
    /\ ValidSamples # {}
    /\ \A i \in ValidSamples :
         /\ SampleSpeed(i) > 0
         /\ SpeedGroup(SampleSpeed(i), windSpeed_vt.unit) = g
         /\ Bucket(RoundHalfAway(windDir_vt.values[i], 10000)) = b

\* the value of group g, bucket b is 100 and the 111 other values are 0
OnlyCell(g, b) ==
    \A h \in 1..7 : \A a \in 1..16 :
        series_data[h].data[a] = IF h = g + 1 /\ a = b + 1 THEN 100 * 10000 ELSE 0

\* C15: when every valid sample has a positive speed in the same speed group
\* and a direction in the same compass bucket, that group's value for that
\* bucket is 100 and the other 111 values are 0.
C15_SameCell ==
    RoseBuilt =>
        \A g \in 0..6 : \A b \in 0..15 : SameCell(g, b) => OnlyCell(g, b)

-----------------------------------------------------------------------------
(* Claims about mirrored series (SpecMixed) *)

Negated(values) ==
    [i \in 1..Len(values) |-> IF values[i] = Null THEN Null ELSE 0 - values[i]]

\* the values of the returned points, without their times
PointValues ==
    IF query.path = "groupby" THEN series_data
    ELSE [i \in 1..Len(series_data) |-> series_data[i][2]]

\* the values a wind rose has unmirrored
RoseValues == Normalise(windroseList, wind_sum)

\* the data of the returned wind rose series
RoseData == [g \in 1..Len(series_data) |-> series_data[g].data]

-----------------------------------------------------------------------------
(* Claims about missing values (SpecRain) *)

\* a series of the standard path: not the rain counter, not group-by
StandardDone == VectorDone /\ observation # "rainTotal"

\* C17: on the standard path a point whose fetched value is None has the value
\* None after conversion, rounding and mirroring, and no other point has; the
\* rain counter alone gives every point a number.
C17_NullPreserved ==
    /\ StandardDone =>
          /\ Len(series_data) = Len(rows)
          /\ \A i \in 1..Len(rows) : (rows[i] = Null) <=> (series_data[i][2] = Null)
    /\ RainDone => \A i \in 1..Len(series_data) : series_data[i][2] # Null

\* a mirrored rain rate in cm per hour with a missing value
C17_Witness ==
    /\ StandardDone
    /\ Mirrored
    /\ obs_vt.unit = "cm_per_hour"
    /\ rows = <<Null, 1000>>
    /\ series_data[1][2] = Null
    /\ series_data[2][2] = 0 - 2500

-----------------------------------------------------------------------------
(* Claims about the time of a point (SpecPoints) *)

\* the series of the chart is compiled on the vector path
PointsDone == pc = "done" /\ query.path = "vector"

\* the chart's window is floating or relative: today, a number of seconds, or
\* no time_length at all (lines 969 and 1010-1015)
FloatingWindow(opts) ==
    LET tl == Get(opts, "time_length", Text86400)
    IN  tl = KW_today \/ IsIntLiteral(tl)

\* the seconds between two records of the answer (lines 1496-1530)
RecordStep == IF Truthy(aggregate_interval) THEN aggregate_interval ELSE 300

\* C18: on the standard and rain paths, a point's time is the end of its
\* record when the chart's window is today, a number of seconds or the
\* default, and the start of its record when the window is a calendar
\* window; it is in milliseconds (seconds * 1000).
C18_PointTimestamps ==
    PointsDone =>
        \A i \in 1..Len(series_data) :
            series_data[i][1] =
                1000 * (IF FloatingWindow(PlotLeaves(Group, Plot))
                        THEN StopTime(i, RecordStep) ELSE StartTime(i, RecordStep))

\* a chart of the current month with hourly sums: the second point is at the
\* start of the second hour
C18_Witness ==
    /\ PointsDone
    /\ Get(PlotLeaves(Group, Plot), "time_length", <<>>) = KW_month
    /\ aggregate_interval = 3600
    /\ Len(series_data) = 3
    /\ series_data[2][1] = 3600000

-----------------------------------------------------------------------------
(* Claims about a series without its aggregation interval (SpecPass) *)

\* the series has an aggregation type and no interval (lines 1086-1097)
SkippedLine(group, plot, line) == SeriesAggregation(LineLeaves(group, plot, line)).skip

\* the entry of a series compiled from its own section, the options it
\* inherits and the archive, whatever else the chart holds (lines 1050-1148)
CompiledAlone(group, plot, line) ==
    LET lo  == LineLeaves(group, plot, line)
        obs == ObservationType(line.name, lo)
        agg == SeriesAggregation(lo)
        now == CHOOSE t \in WallClock : TRUE
        tl  == ResolveSpan(PlotLeaves(group, plot), start_ts, stop_ts,
                           PlotgenTs(gen_ts, stop_ts, now), week_start).time_length
        r   == GetObservationData(obs, agg.aggregate_type, agg.aggregate_interval, tl,
                                  PlotLeaves(group, plot), Get(lo, "mirrored_value", NoneStr),
                                  archive, group_unit, string_formats)
    IN  SeriesEntry(line.name, line.options, lo, obs, YAxisLabel(lo, obs, group_unit),
                    SeriesRounding(obs, group_unit, string_formats), r.series_data)

\* the entry of a chart none of whose series is skipped (lines 954-1148)
PlotAlone(group, plot) ==
    LET n    == Len(plot.lines)
        last == LineLeaves(group, plot, plot.lines[n])
        head == PlotEntry(group, plot)
    IN  [series |-> [k \in { plot.lines[i].name : i \in 1..n } |->
                        CompiledAlone(group, plot,
                            plot.lines[CHOOSE i \in 1..n : plot.lines[i].name = k])],
         options |-> [yAxisLabel |-> YAxisLabel(last, ObservationType(plot.lines[n].name, last),
                                                group_unit)] @@ head.options]

\* the configuration has a series that is skipped
SomeSkipped ==
    \E g \in 1..Len(chart_dict) : \E c \in 1..Len(chart_dict[g].charts) :
        \E l \in 1..Len(chart_dict[g].charts[c].lines) :
            SkippedLine(chart_dict[g], chart_dict[g].charts[c], chart_dict[g].charts[c].lines[l])

\* C19: with a series that has an aggregation type and no interval in the
\* configuration, every written document holds, for every series that is not
\* skipped, the entry that series compiles to on its own, and for every chart
\* without a skipped series the chart it compiles to on its own; when the
\* pass is over the document of every group is written.
C19_SkipLeavesRest ==
    SomeSkipped =>
        /\ \A g \in 1..Len(chart_dict) :
              chart_dict[g].name \in DOMAIN json_files =>
                \A c \in 1..Len(chart_dict[g].charts) :
                    LET group == chart_dict[g]
                        plot  == group.charts[c]
                        doc   == json_files[group.name]
                    IN  /\ plot.name \in DOMAIN doc
                        /\ \A l \in 1..Len(plot.lines) :
                              ~SkippedLine(group, plot, plot.lines[l]) =>
                                  /\ plot.lines[l].name \in DOMAIN doc[plot.name].series
                                  /\ doc[plot.name].series[plot.lines[l].name] =
                                         CompiledAlone(group, plot, plot.lines[l])
                        /\ (\A l \in 1..Len(plot.lines) :
                               ~SkippedLine(group, plot, plot.lines[l]))
                              => doc[plot.name] = PlotAlone(group, plot)
        /\ pc = "end" => \A g \in 1..Len(chart_dict) : chart_dict[g].name \in DOMAIN json_files

\* the pass is over: the first group's chart has a skipped series followed by
\* a compiled one, and the document of the group after it is written
C19_Witness ==
    /\ pc = "end"
    /\ Len(chart_dict) = 2
    /\ LET group == chart_dict[1]
           plot  == group.charts[1]
       IN  /\ Len(plot.lines) = 2
           /\ SkippedLine(group, plot, plot.lines[1])
           /\ ~SkippedLine(group, plot, plot.lines[2])
           /\ Len(json_files[group.name][plot.name].series[plot.lines[2].name].data) = 3
    /\ chart_dict[2].name \in DOMAIN json_files

-----------------------------------------------------------------------------
(* Claims about the entries of a written document (SpecPass) *)

\* the fields of a compiled series (lines 1108, 1127-1130 and 1142-1145)
CompiledFields == {"name", "rounding", "data"}

\* C20: in every written document a series skipped for its missing interval
\* is absent from the chart's series or has a data field, and every entry of
\* a chart's series has the name, rounding and data fields.
C20_EntriesComplete ==
    \A g \in 1..Len(chart_dict) :
        chart_dict[g].name \in DOMAIN json_files =>
            \A c \in 1..Len(chart_dict[g].charts) :
                LET group  == chart_dict[g]
                    plot   == group.charts[c]
                    series == json_files[group.name][plot.name].series
                IN  /\ \A l \in 1..Len(plot.lines) :
                          SkippedLine(group, plot, plot.lines[l]) =>
                              \/ plot.lines[l].name \notin DOMAIN series
                              \/ "data" \in DOMAIN series[plot.lines[l].name]
                    /\ \A k \in DOMAIN series : CompiledFields \subseteq DOMAIN series[k]

-----------------------------------------------------------------------------
(* Claims about the published files (SpecPublish) *)

\* the group of the configuration with this name
GroupNamed(name) == chart_dict[CHOOSE g \in 1..Len(chart_dict) : chart_dict[g].name = name]

\* C21: whatever a reader of a group's file reads while a pass runs is the
\* whole text of the earlier document or the whole text of the new one.
C21_ReaderSeesWhole ==
    \A i \in 1..Len(seen) :
        \/ seen[i].file = PreviousFile(GroupNamed(seen[i].name))
        \/ /\ seen[i].file.part = "all"
           /\ seen[i].name \in DOMAIN json_files
           /\ seen[i].file.doc = json_files[seen[i].name]

\* C22: when the pass has failed, every file is as the earlier pass left it,
\* the files of the groups before the failing one included.
C22_FailedPassKeepsFiles ==
    pc = "failed" =>
        \A name \in DOMAIN disk : disk[name] = PreviousFile(GroupNamed(name))

-----------------------------------------------------------------------------
(* Claims about the order of charts and series (SpecPass) *)

\* the keys of a group's head (lines 936-950)
MetadataKeys ==
    {"belchertown_version", "generated_timestamp", "colors", "chartgroup_title",
     "tooltip_date_format"}

IsChartKey(k) == k \notin MetadataKeys

\* C23: in every written document the keys that are charts are the group's
\* charts in their configured order, and the keys of every chart's series are
\* the chart's series in their configured order.
C23_ConfiguredOrder ==
    \A g \in 1..Len(chart_dict) :
        chart_dict[g].name \in DOMAIN json_files =>
            LET charts == chart_dict[g].charts
                order  == disk[chart_dict[g].name].order
            IN  /\ SelectSeq(order.keys, IsChartKey) = [c \in 1..Len(charts) |-> charts[c].name]
                /\ \A c \in 1..Len(charts) :
                      order.series[charts[c].name] =
                          [l \in 1..Len(charts[c].lines) |-> charts[c].lines[l].name]

\* a written group of two charts of two series each
C23_Witness ==
    /\ pc = "end"
    /\ Len(chart_dict) = 1
    /\ Len(chart_dict[1].charts) = 2
    /\ \A c \in 1..2 : Len(chart_dict[1].charts[c].lines) = 2
    /\ disk[chart_dict[1].name].part = "all"
    /\ SelectSeq(disk[chart_dict[1].name].order.keys, IsChartKey) = <<"chart1", "chart2">>
    /\ disk[chart_dict[1].name].order.series["chart2"] = <<"rainTotal", "rainRate">>

-----------------------------------------------------------------------------
(* Claims about the inheritance of options (SpecInherit) *)

\* the value of the nearest of the sections, nearest first, that sets the key
RECURSIVE Nearest(_, _, _)
Nearest(sections, key, default) ==
    IF sections = <<>> THEN default
    ELSE IF key \in DOMAIN Head(sections).options THEN Head(sections).options[key]
    ELSE Nearest(Tail(sections), key, default)

-----------------------------------------------------------------------------
(* Claims about the categories of a grouped chart (SpecCategories) *)

\* C25: in the written document of a chart whose series are grouped, the
\* chart's xaxis_categories are the configured list when that list is not
\* empty, and the labels of the query's rows, one for each value and in the
\* rows' order, when it is empty; the data of every series are the values of
\* the rows alone.
C25_Categories ==
    \A g \in 1..Len(chart_dict) :
        chart_dict[g].name \in DOMAIN json_files =>
            \A c \in 1..Len(chart_dict[g].charts) :
                LET plot == chart_dict[g].charts[c]
                    doc  == json_files[chart_dict[g].name][plot.name]
                    configured == Get(plot.options, "xaxis_categories", <<>>)
                IN  /\ configured # <<>> => doc.options.xaxis_categories = configured
                    /\ configured = <<>> =>
                          doc.options.xaxis_categories = RowLabels(Len(archive))
                    /\ \A l \in 1..Len(plot.lines) :
                          LET data == doc.series[plot.lines[l].name].data
                          IN  /\ Len(data) = Len(archive)
                              /\ \A i \in 1..Len(data) :
                                    Abs(data[i]) =
                                        ConvertValue(archive[i], group_unit["group_rain"])

\* a written chart with its own categories, and one with the rows' labels
C25_Witness ==
    /\ pc = "end"
    /\ Len(chart_dict[1].charts[1].lines) = 2
    /\ "xaxis_groupby" \in DOMAIN chart_dict[1].charts[1].options
    /\ json_files[chart_dict[1].name]["chart1"].options.xaxis_categories = CategoryList
    /\ Len(json_files[chart_dict[1].name]["chart1"].series["rainTotal"].data) = 3

-----------------------------------------------------------------------------
(* Claims about the instant the windows are resolved against (SpecSpan) *)

\* C26: a rolling window of a number of seconds ends at the instant that
\* anchors today, week, month, year and the _ago windows, which is the
\* archive's last timestamp (lines 975-992), also when a generation time is
\* passed that is not that timestamp.
C26_SameInstant ==
    (SpanResolved /\ IsIntLiteral(ConfiguredTimeLength) /\ stop_ts # None)
        => maxstamp = stop_ts

-----------------------------------------------------------------------------
(* Claims about the precision of the standard path (SpecRain) *)

\* the decimals [Units][StringFormats] configures for the display unit of the
\* series, 2 when it configures none
ConfiguredPlaces ==
    UsageRound(string_formats, group_unit[ObsGroup(observation)], <<"2", "f">>)

\* C27: on the standard path every value that is not None is rounded to the
\* decimals configured for the observation's display unit (2 when none is
\* configured), and the series' rounding field is that number of decimals.
C27_ConfiguredPrecision ==
    StandardDone =>
        /\ \A i \in 1..Len(rows) :
              rows[i] # Null =>
                  obsRound_vt[i] = RoundPlaces(obs_vt.values[i], ConfiguredPlaces)
        /\ rounding = DigitChars[ConfiguredPlaces + 1]

-----------------------------------------------------------------------------
(* Claims about the rendering options of a series (SpecOptions) *)

\* the written entry of the one series of the configuration
WrittenEntry == json_files[chart_dict[1].name][PlotNames[1]].series[LineNames[1]]

ConfiguredOptions == chart_dict[1].charts[1].lines[1].options

Written == pc = "end" /\ chart_dict[1].name \in DOMAIN json_files

\* C28 (as claimed): every rendering option set on a series is in the series'
\* written entry with the configured value, unchanged in value and type.
C28_Original ==
    Written =>
        \A k \in DOMAIN ConfiguredOptions \cap RenderingKeys :
            /\ k \in DOMAIN WrittenEntry
            /\ WrittenEntry[k] = ConfiguredOptions[k]

\* C28 (amended): every rendering option set on a series is in the series'
\* written entry under its key; its value is the number int() reads when the
\* configured text is an integer literal (blanks around it and leading zeros
\* dropped), null when the text is none in any case, and the configured text
\* as a string otherwise.
C28_PassThrough ==
    Written =>
        \A k \in DOMAIN ConfiguredOptions \cap RenderingKeys :
            /\ k \in DOMAIN WrittenEntry
            /\ WrittenEntry[k] =
                  (LET t == ConfiguredOptions[k].text
                   IN  IF IsIntLiteral(t) THEN JsonNumber(ParseInt(t))
                       ELSE IF IsNoneText(t) THEN JsonNull
                       ELSE JsonString(t))

\* a written series with lineWidth = 007 and color = red: the number 7 and the
\* string red
C28_Witness ==
    /\ Written
    /\ "lineWidth" \in DOMAIN ConfiguredOptions
    /\ ConfiguredOptions["lineWidth"] = JsonString(<<"0", "0", "7">>)
    /\ "color" \in DOMAIN ConfiguredOptions
    /\ WrittenEntry["lineWidth"] = JsonNumber(7)
    /\ WrittenEntry["color"] = JsonString(<<"r", "e", "d">>)

-----------------------------------------------------------------------------
(* Claims about the texts of mirrored_value (SpecMirror) *)

\* C29: a series whose mirrored_value is absent, or is the text false or 0,
\* has its values as they are rounded, without negation.
C29_FalseIsNotMirrored ==
    (pc = "done" /\ Get(line_options, "mirrored_value", NoneStr) \in {NoneStr, "false", "0"})
        => PointValues = obsRound_vt

-----------------------------------------------------------------------------
(* Claims about the keys of a written document (SpecNames) *)

\* C30: in every written document the keys of the head hold the values the
\* head was given, and every chart of the group has an entry of its own with
\* its series and its options.
C30_HeadAndCharts ==
    \A g \in 1..Len(chart_dict) :
        chart_dict[g].name \in DOMAIN json_files =>
            LET group == chart_dict[g]
                doc   == json_files[group.name]
                head  == GroupHead(group, CHOOSE now \in WallClock : TRUE)
            IN  /\ \A k \in DOMAIN head : k \in DOMAIN doc /\ doc[k] = head[k]
                /\ \A c \in 1..Len(group.charts) :
                      /\ group.charts[c].name \in DOMAIN doc
                      /\ {"series", "options"} \subseteq DOMAIN doc[group.charts[c].name]

====
